---- MODULE Spec2Model ----
(***************************************************************************)
(* Model of the XboxRomConverter install pipeline:                         *)
(*   services/download_service.py   download_file, _attempt_download       *)
(*   services/storage_service.py    check_disk_space, install, cleanup_temp*)
(*   workers/install_worker.py      InstallWorker.run, _run_pipeline       *)
(* File names are sequences of path components ("sub/game.iso" is          *)
(* <<"sub", "game.iso">>); None and "" are both the empty sequence, as     *)
(* both are falsy in the `or` chains of the source.  Byte counts of the    *)
(* disk-space check are in MiB.                                            *)
(***************************************************************************)
EXTENDS Integers, Sequences, FiniteSets, TLC

\* ------------------------------------------------------------------ bounds
\* chunks a response body delivers at most in one attempt
MaxChunks == 2

\* members an archive holds at most
MaxMembers == 2

\* longest captured output of the converter, in characters
MaxOutputLen == 501

\* directories between the root and the path given to check_disk_space
MaxDepth == 3

\* items selected, over all the requests made of the window
MaxItems == 3

\* ------------------------------------------------------- program constants
MAX_RETRIES == 3

\* FALLBACK_SIZE_ESTIMATE (9 GiB) and DISK_SAFETY_BUFFER_BYTES (512 MiB), in MiB
FALLBACK_SIZE_ESTIMATE == 9216

DISK_SAFETY_BUFFER_BYTES == 512

\* ------------------------------------------------------------ input domains
NoName == << >>

\* lengths of the chunks resp.iter_bytes may yield (0 is an empty chunk)
ChunkLens == {0, 50, 100}

\* values of the Content-Length header
ContentLengths == {0, 100}

\* the response has no Content-Length header
NoLength == [present |-> FALSE]

\* Content-Length headers a response may carry
LengthHeaders ==
    {NoLength} \cup { [present |-> TRUE, value |-> v] : v \in ContentLengths }

\* a default of 0 for the missing header
TotalBytesDefaultZero(h) == IF h.present THEN h.value ELSE 0

\* int(resp.headers.get("content-length", -1))
TotalBytes(h) == IF h.present THEN h.value ELSE -1

\* filename_override arguments
Overrides == {NoName, <<"forced.iso">>, <<"sub", "forced.iso">>}

\* Content-Disposition headers, split at ";" : each part is a key and a value
NoHeader == << >>
Dispositions ==
    { NoHeader,
      << [key |-> "attachment", val |-> NoName],
         [key |-> "filename",   val |-> <<"other.zip">>] >>,
      << [key |-> "filename",   val |-> NoName] >> }

\* URL paths, split at "/" ; a segment holding %2F unquotes to two components
UrlPaths ==
    { << <<"files">>, <<"game.iso">> >>,
      << <<"files">>, NoName >> }

\* names that point out of the destination directory: "..", "../../evil.iso"
\* and the absolute "/etc/evil.iso" (a leading "/" component marks the root)
HostileNames ==
    { <<"..">>, <<"..", "..", "evil.iso">>, <<"/", "etc", "evil.iso">> }

\* the same names sent as Content-Disposition filename
HostileDispositions ==
    { << [key |-> "attachment", val |-> NoName],
         [key |-> "filename",   val |-> n] >> : n \in HostileNames }

\* the same names as last segment of the URL ("..", "..%2F..%2Fevil.iso", ...)
HostileUrlPaths == { << <<"files">>, n >> : n \in HostileNames }

\* free space (MiB) shutil.disk_usage may report, around the threshold
FreeSpaces ==
    { FALLBACK_SIZE_ESTIMATE + DISK_SAFETY_BUFFER_BYTES - 1,
      FALLBACK_SIZE_ESTIMATE + DISK_SAFETY_BUFFER_BYTES,
      FALLBACK_SIZE_ESTIMATE + DISK_SAFETY_BUFFER_BYTES + 1 }

\* top-level entries a converter run may leave in its output directory
ConvOutputs == { {}, {"Foo"}, {"a.xex"}, {"Foo", "a.xex"} }

\* entries of the converter output that are directories
DirEntries == {"Foo"}

\* install directories a run may start with: absent, or holding the results
\* of an earlier install
DestStates ==
    { [exists |-> FALSE, tree |-> {}],
      [exists |-> TRUE,
       tree |-> { [path |-> <<"Foo">>, origin |-> "old"],
                  [path |-> <<"converted">>, origin |-> "old"],
                  [path |-> <<"converted", "a.xex">>, origin |-> "old"],
                  [path |-> <<"converted", "old.bin">>, origin |-> "old"] }] }

\* conversion formats the window offers
Formats == {"XEX", "GOD"}

\* --------------------------------------------------------------- variables
VARIABLES
    mode,           \* "direct": download_file called on its own;
                    \* "pipeline": called by InstallWorker._run_pipeline
    dl_pc,          \* position inside download_file
    attempt,        \* loop variable of download_file
    override,       \* filename_override argument
    disposition,    \* Content-Disposition header the server sends
    urlPath,        \* path of the url argument
    cancelGiven,    \* a cancel_event object was passed
    cancelSet,      \* cancel_event.is_set()
    files,          \* dest_dir: relative path -> byte length of the file
    destPath,       \* dest_path of the running attempt ("" before it is known)
    downloaded,     \* local variable downloaded
    totalBytes,     \* local variable total_bytes
    lengthHeader,   \* Content-Length header of the running attempt's response
    chunksSeen,     \* chunks the running attempt has taken from the stream
    received,       \* sum of the chunk lengths received in the running attempt
    requests,       \* GET requests issued so far
    lastError,      \* last_error of download_file
    errLog,         \* error of every failed attempt, in order
    cleanups,       \* calls of _cleanup_partial
    lastProgress,   \* arguments of the latest progress_callback call
    cancelObserved, \* the cancel check of an attempt has raised
    lateChunks,     \* chunks written after the cancel check raised
    failedPath,     \* dest_path the latest failed attempt had opened
    result          \* what download_file returned or raised

dlVars == << mode, dl_pc, attempt, override, disposition, urlPath, cancelGiven,
             cancelSet, files, destPath, downloaded, totalBytes, lengthHeader,
             chunksSeen,
             received, requests, lastError, errLog, cleanups, lastProgress, cancelObserved, lateChunks, failedPath, result >>

VARIABLES
    pc,             \* position of InstallWorker.run
    exc,            \* exception propagating out of _run_pipeline
    failedStage,    \* stage that raised it
    stages,         \* stages started, in order
    completed,      \* stages that returned, in order
    terminal,       \* finished / error events emitted
    lateEvents,     \* status / progress events emitted after a terminal one
    progressEvent,  \* arguments of the latest progress signal
    tempExists,     \* self._temp_dir exists
    extractedDir,   \* temp_dir/extracted exists
    extractOut,     \* what extract left under temp_dir/extracted
    convertedDir,   \* temp_dir/converted exists
    convOut,        \* entries of temp_dir/converted
    dest,           \* entries below the install directory
    destExists,     \* the install directory exists
    dest0,          \* the install directory as it was when the run started
    fmt,            \* self._fmt
    spaceFree,      \* free space the disk check measured (-1 before it)
    cleanupCalls,   \* calls of storage_service.cleanup_temp
    installPath     \* value install returned

ctlVars  == << pc, exc, failedStage, stages, completed >>
evVars   == << terminal, lateEvents, progressEvent >>
tempVars == << tempExists, extractedDir, extractOut, convertedDir, convOut >>
destVars == << dest, destExists >>
pipeVars == << ctlVars, evVars, tempVars, destVars, dest0, fmt, spaceFree,
               cleanupCalls, installPath >>

VARIABLES
    cv_pc,          \* position inside convert_iso
    conv,           \* what convert_iso has done: calls, lookups, launches, ...
    ex_pc,          \* position inside extract
    ex,             \* the archive, the environment and what extract has done
    dk_pc,          \* position inside check_disk_space
    dk,             \* arguments and outcome of check_disk_space
    ins_pc,         \* position inside install
    ins,            \* the two directories and what install has done
    mw,             \* MainWindow: requests, their workers, queued signals
    ad              \* download_file and download_file_async run side by side

svcVars == << cv_pc, conv, ex_pc, ex, dk_pc, dk, ins_pc, ins, mw, ad >>

vars == << dlVars, pipeVars, svcVars >>

None == [kind |-> "none"]

\* an OSError no service catches
OSError == [type |-> "OSError"]

\* install is not running on its own, no MainWindow drives the worker
InstallUnused == ins_pc = "unused" /\ ins = None

WindowUnused == mw = None

AsyncUnused == ad = None

\* ------------------------------------------------- download_service helpers
\* Python's `a or b`
Or(a, b) == IF a # NoName THEN a ELSE b

\* Path(filename).name
PathName(p) == IF p = NoName \/ p[Len(p)] = "/" THEN "" ELSE p[Len(p)]

RECURSIVE FirstFilenamePart(_)
FirstFilenamePart(cd) ==
    IF cd = << >> THEN NoName
    ELSE IF Head(cd).key = "filename" THEN Head(cd).val
    ELSE FirstFilenamePart(Tail(cd))

\* _filename_from_headers
FilenameFromHeaders(cd) == FirstFilenamePart(cd)

\* _filename_from_url
FilenameFromUrl(path) ==
    LET name == IF path = << >> THEN NoName ELSE path[Len(path)]
    IN  IF name # NoName THEN name ELSE <<"download.bin">>

\* the `or` chain without `Path(filename).name`
ResolveFilenameUnsanitised(ov, cd, path) ==
    Or(ov, Or(FilenameFromHeaders(cd),
              Or(FilenameFromUrl(path), <<"download.bin">>)))

\* the name _attempt_download writes to, relative to dest_dir
ResolveFilename(ov, cd, path) ==
    << PathName(Or(ov, Or(FilenameFromHeaders(cd),
                          Or(FilenameFromUrl(path), <<"download.bin">>)))) >>

\* the name download_file hands to _cleanup_partial
CleanupTarget(ov, path) == Or(ov, FilenameFromUrl(path))

\* _cleanup_partial
CleanupPartial(fs, p) ==
    IF p \in DOMAIN fs THEN [q \in DOMAIN fs \ {p} |-> fs[q]] ELSE fs

\* open(dest_path, "ab"): keeps what the file holds
OpenAppend(fs, p) ==
    [q \in DOMAIN fs \cup {p} |-> IF q \in DOMAIN fs THEN fs[q] ELSE 0]

\* open(dest_path, "wb"): creates or truncates
OpenTruncate(fs, p) == [q \in DOMAIN fs \cup {p} |-> IF q = p THEN 0 ELSE fs[q]]

\* open(dest_dir / name, "wb") can succeed: dest_dir / ".." and dest_dir / ""
\* are directories, for which open raises IsADirectoryError
Openable(p) == ~(Len(p) = 1 /\ p[1] \in {"", ".."})

\* fh.write(chunk)
WriteChunkOverwriting(fs, p, n) == [fs EXCEPT ![p] = n]

WriteChunk(fs, p, n) == [fs EXCEPT ![p] = @ + n]

\* the cleanup is skipped before the last attempt
RetryFollowsEarly(a) == a + 1 < MAX_RETRIES

\* the retry decision of download_file after a failed attempt
RetryFollows(a) == a < MAX_RETRIES

\* off by one: the loop runs once more
LoopContinuesOffByOne(a) == a < MAX_RETRIES + 1

\* `for attempt in range(1, MAX_RETRIES + 1)` has a next iteration
LoopContinues(a) == a + 1 < MAX_RETRIES + 1

\* last_error = exc
RecordError(prev, e) == e

NoPath == << >>

\* --------------------------------------------------------- signal emission
Status(msg)   == [kind |-> "status", arg |-> msg]

Finished(p)   == [kind |-> "finished", arg |-> p]

Error(msg)    == [kind |-> "error", arg |-> msg]

IsTerminal(e) == e.kind \in {"finished", "error"}

\* the events of one step, emitted in order, folded into (terminal, late)
RECURSIVE EmitAll(_, _)
EmitAll(st, evs) ==
    IF evs = << >> THEN st
    ELSE LET e == Head(evs)
         IN  EmitAll(IF IsTerminal(e)
                     THEN [st EXCEPT !.terminal = Append(@, e)]
                     ELSE IF st.terminal # << >>
                          THEN [st EXCEPT !.late = @ + 1]
                          ELSE st,
                     Tail(evs))

Emit(evs) ==
    LET st == EmitAll([terminal |-> terminal, late |-> lateEvents], evs)
    IN  /\ terminal' = st.terminal
        /\ lateEvents' = st.late

\* InstallWorker._on_download_progress
OnDownloadProgress(d, t) == << d, IF t > 0 THEN t ELSE 0 >>

\* MainWindow._on_progress: a percentage when total > 0, otherwise the
\* indeterminate bar (range 0..0)
OnProgress(done, total) ==
    IF total > 0
    THEN [range |-> << 0, 100 >>,
          value |-> IF (done * 100) \div total < 100
                    THEN (done * 100) \div total ELSE 100]
    ELSE [range |-> << 0, 0 >>, value |-> 0]

\* ------------------------------------------------------ download_file steps
\* `except DownloadError` of download_file, reached from a failing attempt
\* that opened the path `opened` (NoPath when it failed before open)
AttemptFailed(kind, opened) ==
    LET err == [kind |-> kind, attempt |-> attempt]
        fs  == IF RetryFollows(attempt)
               THEN CleanupPartial(files, CleanupTarget(override, urlPath))
               ELSE files
    IN  /\ lastError' = RecordError(lastError, err)
        /\ errLog' = Append(errLog, err)
        /\ files' = fs
        /\ cleanups' = IF RetryFollows(attempt) THEN cleanups + 1 ELSE cleanups
        /\ failedPath' = opened
        /\ destPath' = NoPath
        /\ downloaded' = 0
        /\ totalBytes' = -1
        /\ lengthHeader' = NoLength
        /\ chunksSeen' = 0
        /\ received' = 0
        /\ IF LoopContinues(attempt)
           THEN /\ attempt' = attempt + 1
                /\ dl_pc' = "attempt"
                /\ result' = result
           ELSE /\ attempt' = attempt
                /\ dl_pc' = "raised"
                /\ result' = [kind |-> "DownloadError",
                              last |-> RecordError(lastError, err)]

\* httpx.stream(...) fails, or raise_for_status() raises, or open() raises
AttemptRequestFails ==
    /\ dl_pc = "attempt"
    /\ requests' = requests + 1
    /\ \E kind \in {"network", "http", "io"} : AttemptFailed(kind, NoPath)
    /\ UNCHANGED << mode, override, disposition, urlPath, cancelGiven, cancelSet,
                    downloaded, totalBytes, chunksSeen, received, lastProgress, cancelObserved, lateChunks >>
    /\ UNCHANGED pipeVars
    /\ UNCHANGED svcVars

\* the response arrives with a 2xx status and dest_path is opened for writing
AttemptOpens ==
    /\ dl_pc = "attempt"
    /\ requests' = requests + 1
    /\ \E h \in LengthHeaders :
          /\ lengthHeader' = h
          /\ totalBytes' = TotalBytes(h)
    /\ destPath' = ResolveFilename(override, disposition, urlPath)
    /\ Openable(destPath')
    /\ files' = OpenTruncate(files, destPath')
    /\ downloaded' = 0
    /\ chunksSeen' = 0
    /\ received' = 0
    /\ dl_pc' = "streaming"
    /\ UNCHANGED << mode, attempt, override, disposition, urlPath, cancelGiven,
                    cancelSet, lastError, errLog, cleanups, lastProgress, cancelObserved, lateChunks, failedPath,
                    result >>
    /\ UNCHANGED pipeVars
    /\ UNCHANGED svcVars

\* chunks the body of a response may yield: a response that announces a
\* length of 0 has no body
BodyChunks(h) == IF h.present /\ h.value = 0 THEN {0} ELSE ChunkLens

\* one iteration of `for chunk in resp.iter_bytes(...)`
ChunkReceived ==
    /\ dl_pc = "streaming"
    /\ chunksSeen < MaxChunks
    /\ \E n \in BodyChunks(lengthHeader) :
        IF cancelGiven /\ cancelSet
        THEN /\ cancelObserved' = TRUE
             /\ AttemptFailed("cancelled", destPath)
             /\ UNCHANGED << lastProgress, lateChunks, evVars >>
        ELSE IF n = 0
        THEN /\ chunksSeen' = chunksSeen + 1
             /\ UNCHANGED << attempt, dl_pc, files, destPath, downloaded,
                             totalBytes, lengthHeader,
                             received, lastError, errLog, cleanups,
                             lastProgress, cancelObserved,
                             lateChunks, failedPath, result, evVars >>
        ELSE /\ chunksSeen' = chunksSeen + 1
             /\ received' = received + n
             /\ files' = WriteChunk(files, destPath, n)
             /\ downloaded' = downloaded + n
             /\ lastProgress' = << downloaded', totalBytes >>
             /\ lateChunks' = IF cancelObserved THEN lateChunks + 1
                              ELSE lateChunks
             /\ IF mode = "pipeline"
                THEN /\ progressEvent' = OnDownloadProgress(downloaded',
                                                            totalBytes)
                     /\ Emit(<< [kind |-> "progress", arg |-> progressEvent'] >>)
                ELSE UNCHANGED evVars
             /\ UNCHANGED << attempt, dl_pc, destPath, totalBytes, lengthHeader,
                             lastError,
                             errLog, cleanups, cancelObserved, failedPath,
                             result >>
    /\ UNCHANGED << mode, override, disposition, urlPath, cancelGiven, cancelSet,
                    requests >>
    /\ UNCHANGED << ctlVars, tempVars, destVars, dest0, fmt, spaceFree,
                    cleanupCalls, installPath >>
    /\ UNCHANGED svcVars

\* iter_bytes raises httpx.RequestError, or fh.write raises OSError
StreamFails ==
    /\ dl_pc = "streaming"
    /\ \E kind \in {"network", "io"} : AttemptFailed(kind, destPath)
    /\ UNCHANGED << mode, override, disposition, urlPath, cancelGiven, cancelSet,
                    requests, lastProgress, cancelObserved, lateChunks >>
    /\ UNCHANGED pipeVars
    /\ UNCHANGED svcVars

\* the body is exhausted: `return dest_path`
StreamEnds ==
    /\ dl_pc = "streaming"
    /\ dl_pc' = "returned"
    /\ result' = [kind |-> "path", path |-> destPath]
    /\ UNCHANGED << mode, attempt, override, disposition, urlPath, cancelGiven,
                    cancelSet, files, destPath, downloaded, totalBytes,
                    lengthHeader,
                    chunksSeen, received, requests, lastError, errLog, cleanups,
                    lastProgress, cancelObserved, lateChunks,
                    failedPath >>
    /\ UNCHANGED pipeVars
    /\ UNCHANGED svcVars

\* another thread sets the cancel_event while download_file runs
SetCancel ==
    /\ dl_pc \in {"attempt", "streaming"}
    /\ cancelGiven /\ ~cancelSet
    /\ cancelSet' = TRUE
    /\ UNCHANGED << mode, dl_pc, attempt, override, disposition, urlPath,
                    cancelGiven, files, destPath, downloaded, totalBytes,
                    lengthHeader,
                    chunksSeen, received, requests, lastError, errLog, cleanups,
                    lastProgress, cancelObserved, lateChunks,
                    failedPath, result >>
    /\ UNCHANGED pipeVars
    /\ UNCHANGED svcVars

\* int(resp.headers.get("content-length", -1)) raises ValueError on a
\* malformed header: not a DownloadError, so it leaves download_file at once
AttemptCrashes ==
    /\ dl_pc = "attempt"
    /\ requests' = requests + 1
    /\ dl_pc' = "crashed"
    /\ result' = [kind |-> "ValueError"]
    /\ UNCHANGED << mode, attempt, override, disposition, urlPath, cancelGiven,
                    cancelSet, files, destPath, downloaded, totalBytes,
                    lengthHeader,
                    chunksSeen, received, lastError, errLog, cleanups,
                    lastProgress, cancelObserved, lateChunks,
                    failedPath >>
    /\ UNCHANGED pipeVars
    /\ UNCHANGED svcVars

\* the variables of download_file before its first attempt
DownloadEntry(at, ov, cd, path, cg) ==
    /\ dl_pc = at
    /\ attempt = 1
    /\ override = ov
    /\ disposition = cd
    /\ urlPath = path
    /\ cancelGiven = cg
    /\ cancelSet = FALSE
    /\ files = << >>
    /\ destPath = NoPath
    /\ downloaded = 0
    /\ totalBytes = -1
    /\ lengthHeader = NoLength
    /\ chunksSeen = 0
    /\ received = 0
    /\ requests = 0
    /\ lastError = None
    /\ errLog = << >>
    /\ cleanups = 0
    /\ lastProgress = << >>
    /\ cancelObserved = FALSE
    /\ lateChunks = 0
    /\ failedPath = NoPath
    /\ result = None

\* the variables of a worker that has been constructed and not yet started
WorkerEntry(at, d, f) ==
    /\ pc = at
    /\ exc = None
    /\ failedStage = "none"
    /\ stages = << >>
    /\ completed = << >>
    /\ terminal = << >>
    /\ lateEvents = 0
    /\ progressEvent = << >>
    /\ tempExists = FALSE
    /\ extractedDir = FALSE
    /\ extractOut = {}
    /\ convertedDir = FALSE
    /\ convOut = {}
    /\ dest = d.tree
    /\ destExists = d.exists
    /\ dest0 = d
    /\ fmt = f
    /\ spaceFree = -1
    /\ cleanupCalls = 0
    /\ installPath = NoPath

\* ------------------------------------------------------- storage_service
\* the safety buffer is left out of the comparison
CheckDiskSpaceNoBuffer(free, required) ==
    IF free < required
    THEN [type |-> "InsufficientDiskSpaceError",
          required |-> required, available |-> free]
    ELSE [kind |-> "none"]

\* the comparison of check_disk_space with <= for <
CheckDiskSpaceInclusive(free, required) ==
    LET needed == required + DISK_SAFETY_BUFFER_BYTES
    IN  IF free <= needed
        THEN [type |-> "InsufficientDiskSpaceError",
              required |-> needed, available |-> free]
        ELSE None

\* check_disk_space, once the probe directory is found: the exception it
\* raises, or None
CheckDiskSpace(free, required) ==
    LET needed == required + DISK_SAFETY_BUFFER_BYTES
    IN  IF free < needed
        THEN [type |-> "InsufficientDiskSpaceError",
              required |-> needed, available |-> free]
        ELSE None

\* the path argument of check_disk_space: MaxDepth directories below the root
DiskPath == << "/" >> \o [i \in 1..MaxDepth |-> "d"]

\* a relative path argument: MaxDepth directories below the working
\* directory, whose last parent is Path(".")
RelDiskPath == << "." >> \o [i \in 1..MaxDepth |-> "d"]

DiskPaths == { DiskPath, RelDiskPath }

\* required_bytes arguments (MiB)
RequiredSizes == {0, 1, 100, 4096, FALLBACK_SIZE_ESTIMATE}

\* free space (MiB) the disk may report for a request: none, and around the
\* threshold
FreeAround(required) ==
    { 0, required,
      required + DISK_SAFETY_BUFFER_BYTES - 1,
      required + DISK_SAFETY_BUFFER_BYTES,
      required + DISK_SAFETY_BUFFER_BYTES + 1 }

\* probe.parent
Parent(q) == IF Len(q) = 1 THEN q ELSE SubSeq(q, 1, Len(q) - 1)

\* probe.exists(), in a file system whose existing part of the path is its
\* first `depth` components
ProbeExists(q, depth) == Len(q) <= depth

\* the loop of check_disk_space without its `probe != probe.parent` test
WalksUpPastRoot(q, depth) == ~ProbeExists(q, depth)

\* `while not probe.exists() and probe != probe.parent`: one more round
WalksUp(q, depth) == ~ProbeExists(q, depth) /\ q # Parent(q)

\* check_disk_space(path, required) is entered: probe = path
DiskEntry(path, depth, required) ==
    /\ dk_pc = "walk"
    /\ dk = [path |-> path, depth |-> depth, required |-> required,
             probe |-> path, free |-> -1, raised |-> None]

\* probe = probe.parent
DiskWalkUp ==
    /\ dk_pc = "walk"
    /\ WalksUp(dk.probe, dk.depth)
    /\ dk' = [dk EXCEPT !.probe = Parent(@)]
    /\ UNCHANGED << dk_pc, dlVars, pipeVars, cv_pc, conv, ex_pc, ex,
                    ins_pc, ins, mw, ad >>

\* shutil.disk_usage(probe) and the comparison
DiskUsage ==
    /\ dk_pc = "walk"
    /\ ~WalksUp(dk.probe, dk.depth)
    /\ \/ /\ dk' = [dk EXCEPT !.raised = [type |-> "StorageError", reason |-> "disk_usage"]]
          /\ dk_pc' = "raised"
       \/ /\ ProbeExists(dk.probe, dk.depth)
          /\ \E free \in FreeAround(dk.required) :
                dk' = [dk EXCEPT !.free = free, !.raised = CheckDiskSpace(free, dk.required)]
          /\ dk_pc' = IF dk'.raised = None THEN "returned" ELSE "raised"
    /\ UNCHANGED << dlVars, pipeVars, cv_pc, conv, ex_pc, ex, ins_pc, ins, mw, ad >>

\* p lies at or below t
Under(p, t) == Len(p) >= Len(t) /\ SubSeq(p, 1, Len(t)) = t

Exists(tree, p) == \E e \in tree : e.path = p

\* shutil.rmtree(t) / t.unlink()
Remove(tree, t) == { e \in tree : ~Under(e.path, t) }

\* shutil.move(item, t), t absent
MoveIn(tree, t) == tree \cup { [path |-> t, origin |-> "run"] }

\* target.mkdir(exist_ok=True)
MkdirExistOk(tree, t) ==
    IF Exists(tree, t) THEN tree ELSE tree \cup { [path |-> t, origin |-> "run"] }

\* `if dst.exists(): remove it` followed by shutil.move(item, dst)
Replace(tree, t) == MoveIn(Remove(tree, t), t)

RECURSIVE ReplaceAll(_, _, _)
ReplaceAll(tree, target, items) ==
    IF items = {} THEN tree
    ELSE LET it == CHOOSE x \in items : TRUE
         IN  ReplaceAll(Replace(tree, target \o << it >>), target, items \ {it})

\* the branch test of install without `children[0].is_dir()`
SingleEntry(children) == Cardinality(children) = 1

\* install takes the single-directory branch
SingleDir(children) ==
    Cardinality(children) = 1 /\ \A c \in children : c \in DirEntries

\* the directory install moves into, and returns
InstallTarget(children, sourceName) ==
    IF SingleDir(children)
    THEN << CHOOSE c \in children : TRUE >>
    ELSE << sourceName >>

\* an install that takes an empty source for one with output
NoOutputNever(children) == FALSE

\* `if not children` of install
NoOutput(children) == children = {}

\* the entries of the converter output: Foo is a directory, the others are
\* files
SourceEntries == {"Foo", "a.xex", "b.bin"}

KindOf(name) == IF name \in DirEntries THEN "dir" ELSE "file"

\* what a source entry puts at path t when it is moved there: the entry,
\* and for a directory the file it holds
Subtree(name, t) ==
    { [path |-> t, kind |-> KindOf(name), origin |-> name] }
        \cup (IF KindOf(name) = "dir"
               THEN { [path |-> t \o << "data" >>, kind |-> "file", origin |-> name] }
               ELSE {})

\* what may be at dest/Foo and at dest/converted before install runs:
\* nothing, a file, or a directory with entries of its own
OldFoo ==
    { {},
      { [path |-> << "Foo" >>, kind |-> "file", origin |-> "old"] },
      { [path |-> << "Foo" >>, kind |-> "dir", origin |-> "old"],
        [path |-> << "Foo", "old.bin" >>, kind |-> "file", origin |-> "old"] } }

OldConverted ==
    { {},
      { [path |-> << "converted" >>, kind |-> "file", origin |-> "old"] },
      { [path |-> << "converted" >>, kind |-> "dir", origin |-> "old"],
        [path |-> << "converted", "a.xex" >>, kind |-> "dir", origin |-> "old"],
        [path |-> << "converted", "a.xex", "old.bin" >>, kind |-> "file", origin |-> "old"],
        [path |-> << "converted", "b.bin" >>, kind |-> "file", origin |-> "old"],
        [path |-> << "converted", "keep.bin" >>, kind |-> "file", origin |-> "old"] } }

\* dest_dir before install: absent, a regular file, or a directory
InstallDests ==
    { [state |-> "absent", tree |-> {}], [state |-> "file", tree |-> {}] }
        \cup { [state |-> "dir", tree |-> f \cup c] : f \in OldFoo, c \in OldConverted }

\* the entry at path t, as a set (empty when there is none)
At(tree, t) == { e \in tree : e.path = t }

IsDir(tree, t) == \E e \in At(tree, t) : e.kind = "dir"

\* shutil.move(item, dst) onto a dst that was not removed first: the old
\* entries below dst stay
OverwriteKeepingOld(tree, name, t) == (tree \ At(tree, t)) \cup Subtree(name, t)

\* `if dst.exists(): rmtree / unlink` and shutil.move(item, dst)
Overwrite(tree, name, t) == Remove(tree, t) \cup Subtree(name, t)

StorageError(reason) == [type |-> "StorageError", reason |-> reason]

\* install(source_dir, dest_dir) is entered
InstallEntry(sourceName, children, d) ==
    /\ ins_pc = "call"
    /\ ins = [sourceName |-> sourceName, src |-> children, dest0 |-> d,
              destState |-> d.state, tree |-> d.tree, children |-> {},
              pending |-> {}, target |-> NoPath, ops |-> << >>,
              returned |-> NoPath, raised |-> None, earlier |-> << >>]

\* a file-system operation of install is tried and ends with `outcome`
Op(name, outcome) == Append(ins.ops, [op |-> name, outcome |-> outcome])

\* dest_dir.mkdir(parents=True, exist_ok=True), list(source_dir.iterdir()),
\* the test for an empty source and the choice of the branch
InstallCall ==
    /\ ins_pc = "call"
    /\ \/ /\ ins' = [ins EXCEPT !.ops = Op("mkdir dest", "raised"), !.raised = OSError]
          /\ ins_pc' = "raised"
       \/ /\ ins.destState # "file"
          /\ ins' = [ins EXCEPT !.ops = Op("mkdir dest", "ok") \o
                                        << [op |-> "iterdir", outcome |-> "raised"] >>,
                                !.destState = "dir", !.raised = OSError]
          /\ ins_pc' = "raised"
       \/ /\ ins.destState # "file"
          /\ LET listed == [ins EXCEPT !.ops = Op("mkdir dest", "ok") \o
                                         << [op |-> "iterdir", outcome |-> "ok"] >>,
                                       !.destState = "dir", !.children = ins.src]
             IN  IF NoOutput(ins.src)
                 THEN /\ ins' = [listed EXCEPT !.raised = StorageError("empty")]
                      /\ ins_pc' = "raised"
                 ELSE /\ ins' = [listed EXCEPT !.target = InstallTarget(ins.src, ins.sourceName),
                                              !.pending = ins.src]
                      /\ ins_pc' = IF SingleDir(ins.src) THEN "single" ELSE "multi"
    /\ UNCHANGED << dlVars, pipeVars, cv_pc, conv, ex_pc, ex, dk_pc, dk, mw, ad >>

\* the single-directory branch: rmtree of an existing target, shutil.move
InstallSingle ==
    /\ ins_pc = "single"
    /\ LET t    == ins.target
           name == CHOOSE c \in ins.children : TRUE
           old  == At(ins.tree, t) # {}
           rm   == IF old THEN Op("rmtree", "ok") ELSE ins.ops
       IN  \/ \* shutil.rmtree raises; it always does on a regular file
              /\ old
              /\ ins' = [ins EXCEPT !.ops = Op("rmtree", "raised"),
                                    !.raised = StorageError("move")]
              /\ ins_pc' = "raised"
           \/ \* shutil.move raises
              /\ old => IsDir(ins.tree, t)
              /\ ins' = [ins EXCEPT !.ops = Append(rm, [op |-> "move", outcome |-> "raised"]),
                                    !.tree = Remove(@, t),
                                    !.raised = StorageError("move")]
              /\ ins_pc' = "raised"
           \/ /\ old => IsDir(ins.tree, t)
              /\ ins' = [ins EXCEPT !.ops = Append(rm, [op |-> "move", outcome |-> "ok"]),
                                    !.tree = Overwrite(@, name, t),
                                    !.src = @ \ {name},
                                    !.pending = {},
                                    !.returned = t]
              /\ ins_pc' = "returned"
    /\ UNCHANGED << dlVars, pipeVars, cv_pc, conv, ex_pc, ex, dk_pc, dk, mw, ad >>

\* the other branch: target.mkdir(exist_ok=True)
InstallMkTarget ==
    /\ ins_pc = "multi"
    /\ LET t == ins.target
       IN  \/ \* mkdir raises; it always does when target is a regular file
              /\ ins' = [ins EXCEPT !.ops = Op("mkdir target", "raised"),
                                    !.raised = StorageError("move")]
              /\ ins_pc' = "raised"
           \/ /\ At(ins.tree, t) # {} => IsDir(ins.tree, t)
              /\ ins' = [ins EXCEPT !.ops = Op("mkdir target", "ok"),
                                    !.tree = IF At(@, t) # {} THEN @
                                             ELSE @ \cup { [path |-> t, kind |-> "dir",
                                                            origin |-> "install"] }]
              /\ ins_pc' = "items"
    /\ UNCHANGED << dlVars, pipeVars, cv_pc, conv, ex_pc, ex, dk_pc, dk, mw, ad >>

\* one round of `for item in children`: an existing dst is removed (rmtree
\* for a directory, unlink for a file), then the item is moved
InstallItem ==
    /\ ins_pc = "items"
    /\ \E name \in ins.pending :
          LET dst == ins.target \o << name >>
              old == At(ins.tree, dst) # {}
              rmOp == IF IsDir(ins.tree, dst) THEN "rmtree" ELSE "unlink"
              rm  == IF old THEN Op(rmOp, "ok") ELSE ins.ops
          IN  \/ /\ old
                 /\ ins' = [ins EXCEPT !.ops = Op(rmOp, "raised"),
                                       !.raised = StorageError("move")]
                 /\ ins_pc' = "raised"
              \/ /\ ins' = [ins EXCEPT !.ops = Append(rm, [op |-> "move", outcome |-> "raised"]),
                                       !.tree = Remove(@, dst),
                                       !.raised = StorageError("move")]
                 /\ ins_pc' = "raised"
              \/ /\ ins' = [ins EXCEPT !.ops = Append(rm, [op |-> "move", outcome |-> "ok"]),
                                       !.tree = Overwrite(@, name, dst),
                                       !.src = @ \ {name},
                                       !.pending = @ \ {name}]
                 /\ ins_pc' = "items"
    /\ UNCHANGED << dlVars, pipeVars, cv_pc, conv, ex_pc, ex, dk_pc, dk, mw, ad >>

\* the loop is over: return target
InstallEnd ==
    /\ ins_pc = "items"
    /\ ins.pending = {}
    /\ ins' = [ins EXCEPT !.returned = ins.target]
    /\ ins_pc' = "returned"
    /\ UNCHANGED << dlVars, pipeVars, cv_pc, conv, ex_pc, ex, dk_pc, dk, mw, ad >>

\* the mark of what the k-th run of a batch installed
RunLabel(k) ==
    CASE k = 1 -> "run1"
      [] k = 2 -> "run2"
      [] k = 3 -> "run3"
      [] OTHER -> "run4"

\* what the run that just returned moved to its installed path t, marked
\* as the k-th run's
RunArtifacts(tree, t, k) ==
    { [e EXCEPT !.origin = RunLabel(k)] :
        e \in { f \in tree : Under(f.path, t) /\ f.origin \in SourceEntries } }

\* the items of a batch are different titles: the directory a converter
\* names after the title is not produced again by a later run, while file
\* names may repeat from one title to the next
OtherTitle(children) ==
    \A d \in children \cap DirEntries :
        /\ d \notin ins.children
        /\ \A j \in 1..Len(ins.earlier) : d \notin ins.earlier[j].names

\* process_next(index + 1): the next worker of the batch is given the same
\* install_dir, converts into <its temp dir>/converted and calls install on
\* the directory the earlier runs installed into
NextRun ==
    /\ ins_pc = "returned"
    /\ Len(ins.earlier) + 1 < MaxItems
    /\ \E children \in SUBSET SourceEntries :
          /\ OtherTitle(children)
          /\ LET k    == Len(ins.earlier) + 1
                 done == RunArtifacts(ins.tree, ins.returned, k)
                 tree == { e \in ins.tree : e.origin \notin SourceEntries } \cup done
             IN  ins' = [sourceName |-> "converted", src |-> children,
                         dest0 |-> [state |-> "dir", tree |-> tree],
                         destState |-> "dir", tree |-> tree, children |-> {},
                         pending |-> {}, target |-> NoPath, ops |-> << >>,
                         returned |-> NoPath, raised |-> None,
                         earlier |-> Append(ins.earlier,
                                            [path |-> ins.returned,
                                             names |-> ins.children,
                                             artifacts |-> done])]
    /\ ins_pc' = "call"
    /\ UNCHANGED << dlVars, pipeVars, cv_pc, conv, ex_pc, ex, dk_pc, dk, mw, ad >>

\* ------------------------------------------------------ extraction_service
ARCHIVE_EXTENSIONS ==
    {".zip", ".rar", ".7z", ".tar", ".gz", ".bz2", ".xz", ".001"}

\* Path.suffixes of the file names the model downloads
Suffixes(name) ==
    CASE name = "game.iso"     -> << ".iso" >>
      [] name = "forced.iso"   -> << ".iso" >>
      [] name = "other.zip"    -> << ".zip" >>
      [] name = "download.bin" -> << ".bin" >>
      [] OTHER                 -> << >>

\* is_archive
IsArchive(name) ==
    \E k \in 1..Len(Suffixes(name)) : Suffixes(name)[k] \in ARCHIVE_EXTENSIONS

\* dest_dir of extract
ExDest == << "/", "tmp", "romtool", "extracted" >>

\* member names archives may hold, as sequences of path components and
\* separators: plain, nested, "a/../b.bin", "../evil", "ok/../../evil",
\* "/etc/evil", "..\\..\\evil", "..hidden"
BenignMembers ==
    { << "game.iso" >>,
      << "dir", "/", "game.iso" >>,
      << "a", "/", "..", "/", "b.bin" >> }

TraversalMembers ==
    { << "..", "/", "evil" >>,
      << "ok", "/", "..", "/", "..", "/", "evil" >>,
      << "/", "etc", "/", "evil" >>,
      << "..", "\\", "..", "\\", "evil" >> }

MemberNames == BenignMembers \cup TraversalMembers \cup { << "..hidden" >> }

\* member.replace("\\", "/")
ReplaceBackslash(name) ==
    [i \in DOMAIN name |-> IF name[i] = "\\" THEN "/" ELSE name[i]]

\* the components between the separators
RECURSIVE Components(_)
Components(name) ==
    IF name = << >> THEN << >>
    ELSE IF Head(name) = "/" THEN Components(Tail(name))
    ELSE << Head(name) >> \o Components(Tail(name))

\* os.path.normpath on the components: "." dropped, ".." removes the
\* component before it, is dropped at the root, and stays at the start of a
\* relative path
RECURSIVE Collapse(_, _, _)
Collapse(comps, acc, abs) ==
    IF comps = << >> THEN acc
    ELSE LET c == Head(comps)
             next == CASE c \in {".", ""} -> acc
                       [] c = ".." /\ acc # << >> /\ acc[Len(acc)] # ".." ->
                            SubSeq(acc, 1, Len(acc) - 1)
                       [] c = ".." /\ acc = << >> /\ abs -> acc
                       [] OTHER -> Append(acc, c)
         IN  Collapse(Tail(comps), next, abs)

\* clean = os.path.normpath(member_name.replace("\\", "/"))
Normpath(name) ==
    LET n   == ReplaceBackslash(name)
        abs == n # << >> /\ n[1] = "/"
    IN  [abs |-> abs, comps |-> Collapse(Components(n), << >>, abs)]

\* os.path.isabs(clean)
IsAbs(clean) == clean.abs

\* clean.startswith("..")
StartsWithDotDot(clean) ==
    ~clean.abs /\ clean.comps # << >> /\ clean.comps[1] \in {"..", "..hidden"}

\* (dest / clean).resolve(), no symbolic links
RECURSIVE ResolveFrom(_, _)
ResolveFrom(at, comps) ==
    IF comps = << >> THEN at
    ELSE ResolveFrom(IF Head(comps) = ".." THEN Parent(at) ELSE Append(at, Head(comps)),
                     Tail(comps))

Resolve(dst, clean) ==
    IF clean.abs THEN ResolveFrom(<< "/" >>, clean.comps)
    ELSE ResolveFrom(dst, clean.comps)

\* _safe_member_path whose test for absolute and ".." names is left out and
\* whose relative_to test accepts every path
SafeMemberPathAcceptsAll(dst, name) == Resolve(dst, Normpath(name))

\* _safe_member_path: the resolved path, or NoPath for None
SafeMemberPath(dst, name) ==
    LET clean == Normpath(name)
    IN  IF IsAbs(clean) \/ StartsWithDotDot(clean) THEN NoPath
        ELSE LET resolved == Resolve(dst, clean)
             IN  IF Under(resolved, dst) THEN resolved ELSE NoPath

\* Path.suffixes of the archives extract is given: .zip, .rar, .rar.001,
\* .7z, .tar.gz, .001
ExSuffixes ==
    { << ".zip" >>, << ".rar" >>, << ".rar", ".001" >>, << ".7z" >>,
      << ".tar", ".gz" >>, << ".001" >> }

\* the member lists of the archives
Archives == UNION { [1..n -> MemberNames] : n \in 1..MaxMembers }

\* the optional modules the backends import
Modules == {"rarfile", "py7zr", "patoollib"}

ExtractionError(reason) == [type |-> "ExtractionError", reason |-> reason]

\* the if/elif chain of extract: the backend function called
Dispatch(suffixes) ==
    LET suffix == IF suffixes = << >> THEN "" ELSE suffixes[Len(suffixes)]
        has(x) == \E k \in DOMAIN suffixes : suffixes[k] = x
    IN  CASE suffix = ".zip" -> "zip"
          [] suffix # ".zip" /\ (suffix = ".rar" \/ has(".rar")) -> "rar"
          [] suffix \notin {".zip", ".rar"} /\ ~has(".rar")
                /\ (suffix = ".7z" \/ has(".7z")) -> "7z"
          [] suffix \notin {".zip", ".rar", ".7z"} /\ ~has(".rar") /\ ~has(".7z")
                /\ (suffix \in {".tar", ".gz", ".bz2", ".xz"} \/ has(".tar")) -> "tar"
          [] OTHER -> "patool"

\* the module _extract_rar / _extract_7z imports
Binding(backend) == IF backend = "rar" THEN "rarfile" ELSE "py7zr"

\* _extract_rar / _extract_7z that also go on to patool when the binding fails
FallsBackOnFailure(outcome) == outcome \in {"unavailable", "failed"}

\* `except ImportError: pass` of _extract_rar / _extract_7z: the outcomes of
\* the binding after which _extract_patool is called
FallsBack(outcome) == outcome = "unavailable"

\* the first member _safe_member_path rejects, 0 if there is none
FirstUnsafe(members) ==
    LET bad == { i \in DOMAIN members : SafeMemberPath(ExDest, members[i]) = NoPath }
    IN  IF bad = {} THEN 0 ELSE CHOOSE i \in bad : \A j \in bad : i <= j

\* extractall of a backend that has validated every member
WriteAllChecked(members) ==
    [i \in DOMAIN members |->
        [member |-> i, target |-> SafeMemberPath(ExDest, members[i]), checked |-> TRUE]]

\* where an external tool puts a member: it follows the name it is given, or
\* it drops the leading "/" and the ".." components
ToolTarget(name, follows) ==
    LET clean == Normpath(name)
    IN  IF follows THEN Resolve(ExDest, clean)
        ELSE ExDest \o SelectSeq(clean.comps, LAMBDA c : c # "..")

\* patoollib.extract_archive: members written with no call of _safe_member_path
WriteAllUnchecked(members, follows) ==
    [i \in DOMAIN members |->
        [member |-> i, target |-> ToolTarget(members[i], follows), checked |-> FALSE]]

\* a backend ends with `outcome`
Tried(backend, outcome) == Append(ex.tried, [backend |-> backend, outcome |-> outcome])

\* extract(archive_path, dest_dir) is entered
ExtractEntry(suffixes, exists, members, importable) ==
    /\ ex_pc = "call"
    /\ ex = [suffixes |-> suffixes, exists |-> exists, members |-> members,
             importable |-> importable, next |-> 1, checked |-> {},
             written |-> << >>, tried |-> << >>, raised |-> None]

\* the archive_path.exists() test, dest_dir.mkdir and the dispatch
ExtractCall ==
    /\ ex_pc = "call"
    /\ IF ~ex.exists
       THEN /\ ex' = [ex EXCEPT !.raised = ExtractionError("Archive not found")]
            /\ ex_pc' = "raised"
       ELSE \/ /\ ex' = [ex EXCEPT !.raised = OSError]
               /\ ex_pc' = "raised"
            \/ /\ ex_pc' = Dispatch(ex.suffixes)
               /\ ex' = ex
    /\ UNCHANGED << dlVars, pipeVars, cv_pc, conv, dk_pc, dk, ins_pc, ins, mw, ad >>

\* _extract_zip: ZipFile(archive) raises BadZipFile
ZipOpenFails ==
    /\ ex_pc = "zip"
    /\ ex.next = 1
    /\ ex' = [ex EXCEPT !.tried = Tried("zipfile", "failed"),
                        !.raised = ExtractionError("Corrupt or invalid ZIP archive")]
    /\ ex_pc' = "raised"
    /\ UNCHANGED << dlVars, pipeVars, cv_pc, conv, dk_pc, dk, ins_pc, ins, mw, ad >>

\* _extract_zip: one round of `for member in zf.infolist()`
ZipMember ==
    /\ ex_pc = "zip"
    /\ ex.next <= Len(ex.members)
    /\ LET i == ex.next
           target == SafeMemberPath(ExDest, ex.members[i])
           e1 == [ex EXCEPT !.checked = @ \cup {i}]
       IN  IF target = NoPath
           THEN /\ ex' = [e1 EXCEPT !.tried = Tried("zipfile", "rejected"),
                                    !.raised = ExtractionError("Path traversal detected")]
                /\ ex_pc' = "raised"
           ELSE \/ /\ ex' = [e1 EXCEPT !.next = i + 1,
                                       !.written = Append(@, [member |-> i, target |-> target,
                                                              checked |-> TRUE])]
                   /\ ex_pc' = "zip"
                \/ /\ ex' = [e1 EXCEPT !.tried = Tried("zipfile", "failed"),
                                       !.raised = ExtractionError("Unexpected error")]
                   /\ ex_pc' = "raised"
    /\ UNCHANGED << dlVars, pipeVars, cv_pc, conv, dk_pc, dk, ins_pc, ins, mw, ad >>

\* _extract_zip: the loop is over, extract returns dest_dir
ZipEnd ==
    /\ ex_pc = "zip"
    /\ ex.next > Len(ex.members)
    /\ ex' = [ex EXCEPT !.tried = Tried("zipfile", "ok")]
    /\ ex_pc' = "returned"
    /\ UNCHANGED << dlVars, pipeVars, cv_pc, conv, dk_pc, dk, ins_pc, ins, mw, ad >>

\* the members are validated in order up to the first one rejected: what
\* a validate-all loop leaves in `checked`
CheckedUpTo(members) ==
    IF FirstUnsafe(members) = 0 THEN DOMAIN members ELSE 1..FirstUnsafe(members)

\* _extract_tar: open, validate every member, extractall
TarExtract ==
    /\ ex_pc = "tar"
    /\ \/ /\ ex' = [ex EXCEPT !.tried = Tried("tarfile", "failed"),
                              !.raised = ExtractionError("Corrupt or invalid TAR archive")]
          /\ ex_pc' = "raised"
       \/ /\ FirstUnsafe(ex.members) # 0
          /\ ex' = [ex EXCEPT !.checked = CheckedUpTo(ex.members),
                              !.tried = Tried("tarfile", "rejected"),
                              !.raised = ExtractionError("Path traversal detected")]
          /\ ex_pc' = "raised"
       \/ /\ FirstUnsafe(ex.members) = 0
          /\ ex' = [ex EXCEPT !.checked = CheckedUpTo(ex.members),
                              !.written = WriteAllChecked(ex.members),
                              !.tried = Tried("tarfile", "ok")]
          /\ ex_pc' = "returned"
    /\ UNCHANGED << dlVars, pipeVars, cv_pc, conv, dk_pc, dk, ins_pc, ins, mw, ad >>

\* _extract_rar / _extract_7z up to the call of _extract_patool
BindingExtract ==
    /\ ex_pc \in {"rar", "7z"}
    /\ LET b == Binding(ex_pc)
           after(o, reason) ==
               IF FallsBack(o)
               THEN /\ ex' = [ex EXCEPT !.tried = Tried(b, o)]
                    /\ ex_pc' = "patool"
               ELSE /\ ex' = [ex EXCEPT !.tried = Tried(b, o),
                                        !.raised = ExtractionError(reason)]
                    /\ ex_pc' = "raised"
       IN  IF b \notin ex.importable
           THEN after("unavailable", "binding not importable")
           ELSE \/ after("failed", "RAR/7z extraction failed")
                \/ /\ FirstUnsafe(ex.members) # 0
                   /\ ex' = [ex EXCEPT !.checked = CheckedUpTo(ex.members),
                                       !.tried = Tried(b, "rejected"),
                                       !.raised = ExtractionError("RAR/7z extraction failed")]
                   /\ ex_pc' = "raised"
                \/ /\ FirstUnsafe(ex.members) = 0
                   /\ ex' = [ex EXCEPT !.checked = CheckedUpTo(ex.members),
                                       !.written = WriteAllChecked(ex.members),
                                       !.tried = Tried(b, "ok")]
                   /\ ex_pc' = "returned"
    /\ UNCHANGED << dlVars, pipeVars, cv_pc, conv, dk_pc, dk, ins_pc, ins, mw, ad >>

\* _extract_patool
PatoolExtract ==
    /\ ex_pc = "patool"
    /\ IF "patoollib" \notin ex.importable
       THEN /\ ex' = [ex EXCEPT !.tried = Tried("patool", "unavailable"),
                                !.raised = ExtractionError("No extraction backend available")]
            /\ ex_pc' = "raised"
       ELSE \E follows \in BOOLEAN :
              \/ \E k \in 0..Len(ex.members) :
                    /\ ex' = [ex EXCEPT !.written =
                                           SubSeq(WriteAllUnchecked(ex.members, follows), 1, k),
                                        !.tried = Tried("patool", "failed"),
                                        !.raised = ExtractionError("patool extraction failed")]
                    /\ ex_pc' = "raised"
              \/ /\ ex' = [ex EXCEPT !.written = WriteAllUnchecked(ex.members, follows),
                                     !.tried = Tried("patool", "ok")]
                 /\ ex_pc' = "returned"
    /\ UNCHANGED << dlVars, pipeVars, cv_pc, conv, dk_pc, dk, ins_pc, ins, mw, ad >>

\* ------------------------------------------------------------ InstallWorker
\* the cleanup step is missing from the sequence
SuccessorNoCleanup(stage) ==
    CASE stage = "Init"       -> "SpaceCheck"
      [] stage = "SpaceCheck" -> "Download"
      [] stage = "Extract"    -> "Convert"
      [] stage = "Convert"    -> "Install"
      [] stage = "Install"    -> "Done"
      [] stage = "Cleanup"    -> "Done"
      [] stage = "Done"       -> "finished"

\* install is called right after the disk check
SuccessorInstallFirst(stage) ==
    CASE stage = "Init"       -> "SpaceCheck"
      [] stage = "SpaceCheck" -> "Install"
      [] stage = "Extract"    -> "Convert"
      [] stage = "Convert"    -> "Install"
      [] stage = "Install"    -> "Cleanup"
      [] stage = "Cleanup"    -> "Done"
      [] stage = "Done"       -> "finished"

\* the statement order of _run_pipeline
Successor(stage) ==
    CASE stage = "Init"       -> "SpaceCheck"
      [] stage = "SpaceCheck" -> "Download"
      [] stage = "Extract"    -> "Convert"
      [] stage = "Convert"    -> "Install"
      [] stage = "Install"    -> "Cleanup"
      [] stage = "Cleanup"    -> "Done"
      [] stage = "Done"       -> "finished"

\* `if extraction_service.is_archive(download_path)`
AfterDownload(path) ==
    IF IsArchive(PathName(path)) THEN "Extract" ELSE "Convert"

\* the classes of services/exceptions.py an exception type is an instance
\* of; the types of the standard library are instances of Exception only
Bases(t) ==
    CASE t = "InsufficientDiskSpaceError" ->
             {"InsufficientDiskSpaceError", "StorageError", "ROMToolError", "Exception"}
      [] t \in {"SearchError", "DownloadError", "ExtractionError",
                "ConversionError", "StorageError"} -> {t, "ROMToolError", "Exception"}
      [] t = "ROMToolError" -> {"ROMToolError", "Exception"}
      [] OTHER -> {t, "Exception"}

\* the except clauses of run(), in the order they are written
ExceptClauses ==
    << [class |-> "InsufficientDiskSpaceError", prefix |-> "Not enough disk space."],
       [class |-> "DownloadError",   prefix |-> "Download failed:"],
       [class |-> "ExtractionError", prefix |-> "Extraction failed:"],
       [class |-> "ConversionError", prefix |-> "Conversion failed:"],
       [class |-> "StorageError",    prefix |-> "Storage error:"],
       [class |-> "ROMToolError",    prefix |-> "Error:"],
       [class |-> "Exception",       prefix |-> "Unexpected error:"] >>

\* the first clause whose class the exception is an instance of
RECURSIVE FirstClause(_, _)
FirstClause(clauses, t) ==
    IF Head(clauses).class \in Bases(t) THEN Head(clauses)
    ELSE FirstClause(Tail(clauses), t)

\* an except chain that names StorageError ahead of its subclass
ErrorPrefixParentFirst(e) ==
    FirstClause(<< ExceptClauses[5] >> \o ExceptClauses, e.type).prefix

\* the except chain of run(): message prefix for an exception
ErrorPrefix(e) == FirstClause(ExceptClauses, e.type).prefix

\* n / d rounded to the nearest integer, ties to the even one
RoundHalfEven(n, d) ==
    LET q == n \div d
        r == n % d
    IN  IF 2 * r < d THEN q
        ELSE IF 2 * r > d THEN q + 1
        ELSE IF q % 2 = 0 THEN q ELSE q + 1

\* f"{bytes / 1024**3:.1f}" for an amount given in MiB: tenths of a GiB
GiBTenths(mib) == RoundHalfEven(mib * 10, 1024)

\* the text run() emits with the error signal: the prefix and str(exc), or
\* for the disk space clause the two amounts in GiB
ErrorMessage(e) ==
    IF ErrorPrefix(e) = "Not enough disk space."
    THEN [prefix |-> ErrorPrefix(e), cause |-> e,
          required |-> GiBTenths(e.required),
          available |-> GiBTenths(e.available)]
    ELSE [prefix |-> ErrorPrefix(e), cause |-> e]

\* run() without its last `except Exception` clause
ExceptEventsNoCatchAll(e) ==
    IF ErrorPrefix(e) = "Unexpected error:" THEN << >>
    ELSE << [kind |-> "error", arg |-> ErrorMessage(e)] >>

\* what run() emits for an exception of _run_pipeline
ExceptEvents(e) == << Error(ErrorMessage(e)) >>

\* what _run_pipeline emits after install returned
CleanupEvents == << Status("Cleaning up temporary files"), Status("Done.") >>

DoneEvents(p) == << Finished(p) >>

\* the except clauses call cleanup_temp
CleanupOnFailureAlways == TRUE

\* whether a failing run removes its working directory
CleanupOnFailure == FALSE

\* a stage runs to its end
Advance(stage) ==
    /\ stages' = Append(stages, stage)
    /\ completed' = Append(completed, stage)
    /\ pc' = Successor(stage)
    /\ UNCHANGED << exc, failedStage >>

\* a stage raises e
Fail(stage, e) ==
    /\ stages' = Append(stages, stage)
    /\ completed' = completed
    /\ pc' = "raising"
    /\ exc' = e
    /\ failedStage' = stage

\* ------------------------------------------------------ conversion_service
\* timeout=3600 of subprocess.run, in seconds
CONVERT_TIMEOUT == 3600

\* the [:500] of the stdout and stderr snippets
SNIPPET_LIMIT == 500

\* a captured output of n characters
Text(n) == [i \in 1..n |-> i % 10]

OutputLens == {0, SNIPPET_LIMIT - 1, SNIPPET_LIMIT, MaxOutputLen}

\* what subprocess.run can meet: the launch fails, or the process runs for
\* `elapsed` seconds and (if it is not killed first) exits with `code`
LaunchFailures == { [kind |-> "FileNotFoundError"], [kind |-> "OSError"] }

ProcessRuns(lens) ==
    [kind : {"ran"}, elapsed : {10, CONVERT_TIMEOUT + 1}, code : {0, 1, 2},
     stdout : {Text(n) : n \in lens}, stderr : {Text(n) : n \in lens}]

ConvProcs == LaunchFailures \cup ProcessRuns(OutputLens)

\* the processes a pipeline run is explored with
PipelineProcs ==
    { pr \in ProcessRuns({0}) : pr.code \in {0, 1} /\ (pr.elapsed = 10 \/ pr.code = 0) }

\* ROMTOOL_BASE of the environment (NoPath: not set) and the working directory
BasePaths == { NoPath, << "/", "opt", "romtool" >> }

Cwd == << "/", "home", "app" >>

\* the tool of each format, and the command line built for it
BinName(f) == IF f = "XEX" THEN "exiso.exe" ELSE "iso2god.exe"

Cmd(f, bin, iso) ==
    IF f = "XEX" THEN << bin, "-d", "converted", iso >>
    ELSE << bin, iso, "converted", "--trim" >>

\* _bin_path: base / "bin" / name
Candidate(base, name) == (IF base = NoPath THEN Cwd ELSE base) \o << "bin", name >>

ConversionError(reason) == [type |-> "ConversionError", reason |-> reason]

\* result.stdout[:500] cut one character late
SnippetOffByOne(t) == SubSeq(t, 1, IF Len(t) < SNIPPET_LIMIT + 1 THEN Len(t) ELSE SNIPPET_LIMIT + 1)

\* (result.stdout or "")[:500]
Snippet(t) == SubSeq(t, 1, IF Len(t) < SNIPPET_LIMIT THEN Len(t) ELSE SNIPPET_LIMIT)

\* subprocess.run of a process that never times out
TimedOutNever(pr) == FALSE

\* subprocess.run raises TimeoutExpired
TimedOut(pr) == pr.elapsed > CONVERT_TIMEOUT

\* _run_subprocess: the exception it raises, or None
RunSubprocess(pr) ==
    CASE pr.kind = "FileNotFoundError" -> ConversionError("executable not found")
      [] pr.kind = "OSError"           -> ConversionError("OS error launching")
      [] pr.kind = "ran" /\ TimedOut(pr) -> ConversionError("exceeded the 1-hour time limit")
      [] pr.kind = "ran" /\ ~TimedOut(pr) /\ pr.code # 0 ->
            [type |-> "ConversionError", reason |-> "exited with code",
             code |-> pr.code, stdout |-> Snippet(pr.stdout), stderr |-> Snippet(pr.stderr)]
      [] OTHER -> None

\* nothing of convert_iso has happened
ConvIdle ==
    [calls |-> 0, iso |-> NoPath, fmt |-> "", cb |-> FALSE, mkdirOk |-> FALSE,
     base |-> NoPath,
     candidate |-> NoPath,
     lookups |-> 0, binExists |-> FALSE, launches |-> 0, cmd |-> << >>,
     proc |-> None, progress |-> << >>, status |-> "idle", raised |-> None]

\* a dispatch of convert_iso that takes every format for GOD
KnownFormatAny(f) == TRUE

\* the `if fmt == "XEX" ... elif fmt == "GOD"` of convert_iso
KnownFormat(f) == f \in {"XEX", "GOD"}

\* _convert_xex / _convert_god without the exists() test of _bin_path
BinaryCheckedNever(exists) == TRUE

\* `if not candidate.exists(): raise` of _bin_path
BinaryChecked(exists) == exists

\* convert_iso up to the launch of the tool: mkdir, dispatch, _bin_path, cb(0, 100)
\* status "running": ready to launch
ConvertEnter(c, iso, f, cb, base, mkdirOk, binExists) ==
    LET c0 == [c EXCEPT !.calls = @ + 1, !.iso = iso, !.fmt = f, !.cb = cb,
                        !.mkdirOk = mkdirOk]
        c1 == [c0 EXCEPT !.lookups = @ + 1, !.binExists = binExists, !.base = base,
                         !.candidate = Candidate(base, BinName(f))]
    IN  IF ~mkdirOk THEN [c0 EXCEPT !.status = "raised", !.raised = OSError]
        ELSE IF ~KnownFormat(f)
             THEN [c0 EXCEPT !.status = "raised",
                             !.raised = ConversionError("Unknown conversion format")]
        ELSE IF ~BinaryChecked(binExists)
             THEN [c1 EXCEPT !.status = "raised",
                             !.raised = ConversionError("Conversion binary not found")]
        ELSE [c1 EXCEPT !.cmd = Cmd(f, c1.candidate, iso),
                        !.progress = IF cb THEN Append(@, << 0, 100 >>) ELSE @,
                        !.status = "running"]

\* a convert_iso that launches the tool a second time when the first run failed
ConvertFinishRetrying(c, pr) ==
    LET e  == RunSubprocess(pr)
        c1 == [c EXCEPT !.launches = @ + 1, !.proc = pr]
    IN  IF e # None THEN [c1 EXCEPT !.launches = @ + 1, !.status = "raised", !.raised = e]
        ELSE [c1 EXCEPT !.progress = IF c.cb THEN Append(@, << 100, 100 >>) ELSE @,
                        !.status = "returned"]

\* cb(100, 100) called whatever _run_subprocess did
ConvertFinishReportsAlways(c, pr) ==
    LET e  == RunSubprocess(pr)
        c1 == [c EXCEPT !.launches = @ + 1, !.proc = pr,
                        !.progress = IF c.cb THEN Append(@, << 100, 100 >>) ELSE @]
    IN  IF e # None THEN [c1 EXCEPT !.status = "raised", !.raised = e]
        ELSE [c1 EXCEPT !.status = "returned"]

\* convert_iso from the launch on: _run_subprocess, cb(100, 100), return
ConvertFinish(c, pr) ==
    LET e  == RunSubprocess(pr)
        c1 == [c EXCEPT !.launches = @ + 1, !.proc = pr]
    IN  IF e # None THEN [c1 EXCEPT !.status = "raised", !.raised = e]
        ELSE [c1 EXCEPT !.progress = IF c.cb THEN Append(@, << 100, 100 >>) ELSE @,
                        !.status = "returned"]

\* convert_iso is not running on its own
ConvertUnused == cv_pc = "unused" /\ conv = ConvIdle

\* placeholders of the other services
ExtractUnused == ex_pc = "unused" /\ ex = None

DiskUnused == dk_pc = "unused" /\ dk = None

\* extract called on its own
InitExtract ==
    /\ mode = "direct"
    /\ DownloadEntry("unused", NoName, NoHeader, << <<"files">>, <<"game.iso">> >>, FALSE)
    /\ WorkerEntry("unused", [exists |-> TRUE, tree |-> {}], "XEX")
    /\ InstallUnused /\ WindowUnused /\ AsyncUnused
    /\ ConvertUnused /\ DiskUnused
    /\ \E suffixes \in ExSuffixes, exists \in BOOLEAN, members \in Archives,
          importable \in SUBSET Modules :
          ExtractEntry(suffixes, exists, members, importable)

NextExtract ==
    \/ ExtractCall
    \/ ZipOpenFails
    \/ ZipMember
    \/ ZipEnd
    \/ TarExtract
    \/ BindingExtract
    \/ PatoolExtract

SpecExtract == InitExtract /\ [][NextExtract]_vars

\* check_disk_space called on its own; depth 0: not even the root answers
InitDisk ==
    /\ mode = "direct"
    /\ DownloadEntry("unused", NoName, NoHeader, << <<"files">>, <<"game.iso">> >>, FALSE)
    /\ WorkerEntry("unused", [exists |-> TRUE, tree |-> {}], "XEX")
    /\ InstallUnused /\ WindowUnused /\ AsyncUnused
    /\ ConvertUnused /\ ExtractUnused
    /\ \E path \in DiskPaths, depth \in 0..Len(DiskPath), required \in RequiredSizes :
          DiskEntry(path, depth, required)

NextDisk ==
    \/ DiskWalkUp
    \/ DiskUsage

SpecDisk == InitDisk /\ [][NextDisk]_vars

\* install called on its own
InitInstall ==
    /\ mode = "direct"
    /\ DownloadEntry("unused", NoName, NoHeader, << <<"files">>, <<"game.iso">> >>, FALSE)
    /\ WorkerEntry("unused", [exists |-> TRUE, tree |-> {}], "XEX")
    /\ ConvertUnused /\ ExtractUnused /\ DiskUnused /\ WindowUnused /\ AsyncUnused
    /\ \E children \in SUBSET SourceEntries, d \in InstallDests :
          InstallEntry("converted", children, d)

NextInstall ==
    \/ InstallCall
    \/ InstallSingle
    \/ InstallMkTarget
    \/ InstallItem
    \/ InstallEnd

SpecInstall == InitInstall /\ [][NextInstall]_vars

\* a batch of runs installing into the same directory, one after the other
NextBatch ==
    \/ NextInstall
    \/ NextRun

SpecBatch == InitInstall /\ [][NextBatch]_vars

\* check_disk_space runs on: an enabled step of it is eventually taken
SpecDiskFair == SpecDisk /\ WF_vars(NextDisk)

\* iso_path of a convert_iso call made on its own
IsoArg == << "game.iso" >>

\* convert_iso is called
ConvertCall ==
    /\ cv_pc = "call"
    /\ \E cb \in BOOLEAN, base \in BasePaths, mkdirOk \in BOOLEAN, binExists \in BOOLEAN :
          conv' = ConvertEnter(conv, IsoArg, fmt, cb, base, mkdirOk, binExists)
    /\ cv_pc' = conv'.status
    /\ UNCHANGED << dlVars, pipeVars, ex_pc, ex, dk_pc, dk, ins_pc, ins, mw, ad >>

\* subprocess.run returns or raises, and convert_iso ends
SubprocessEnds ==
    /\ cv_pc = "running"
    /\ \E pr \in ConvProcs : conv' = ConvertFinish(conv, pr)
    /\ cv_pc' = conv'.status
    /\ UNCHANGED << dlVars, pipeVars, ex_pc, ex, dk_pc, dk, ins_pc, ins, mw, ad >>

\* 1. create the temp directory
StageInit ==
    /\ pc = "Init"
    /\ \/ /\ Fail("Init", OSError)
          /\ UNCHANGED << tempExists, evVars >>
       \/ /\ Advance("Init")
          /\ tempExists' = TRUE
          /\ Emit(<< Status("Working directory") >>)
          /\ UNCHANGED progressEvent
    /\ UNCHANGED << extractedDir, extractOut, convertedDir, convOut, destVars, dest0, fmt,
                    spaceFree, cleanupCalls, installPath, dlVars >>
    /\ UNCHANGED svcVars

\* 2. check_disk_space(install_dir, FALLBACK_SIZE_ESTIMATE)
StageSpaceCheck ==
    /\ pc = "SpaceCheck"
    /\ \/ /\ Fail("SpaceCheck", [type |-> "StorageError", reason |-> "disk_usage"])
          /\ Emit(<< Status("Checking available disk space") >>)
          /\ UNCHANGED spaceFree
       \/ \E free \in FreeSpaces :
            LET e == CheckDiskSpace(free, FALLBACK_SIZE_ESTIMATE)
            IN  /\ spaceFree' = free
                /\ IF e # None
                   THEN /\ Fail("SpaceCheck", e)
                        /\ Emit(<< Status("Checking available disk space") >>)
                   ELSE /\ Advance("SpaceCheck")
                        /\ Emit(<< Status("Checking available disk space"),
                                   Status("Disk space OK.") >>)
    /\ UNCHANGED << progressEvent, tempVars, destVars, dest0, fmt, cleanupCalls,
                    installPath, dlVars >>
    /\ UNCHANGED svcVars

\* 3. download_file(url, temp_dir, progress_callback) is entered
DownloadCall ==
    /\ pc = "Download"
    /\ dl_pc = "idle"
    /\ stages' = Append(stages, "Download")
    /\ pc' = "Downloading"
    /\ dl_pc' = "attempt"
    /\ Emit(<< Status("Downloading from") >>)
    /\ UNCHANGED << exc, failedStage, completed, progressEvent, tempVars,
                    destVars, dest0, fmt, spaceFree, cleanupCalls, installPath >>
    /\ UNCHANGED << mode, attempt, override, disposition, urlPath, cancelGiven,
                    cancelSet, files, destPath, downloaded, totalBytes,
                    lengthHeader,
                    chunksSeen, received, requests, lastError, errLog, cleanups,
                    lastProgress, cancelObserved, lateChunks,
                    failedPath, result >>
    /\ UNCHANGED svcVars

\* the frames of download_file and _attempt_download are left: their locals
\* are gone, what the call did to the world stays
FrameLeft ==
    /\ attempt' = 1
    /\ lastError' = None
    /\ destPath' = NoPath
    /\ downloaded' = 0
    /\ totalBytes' = -1
    /\ lengthHeader' = NoLength
    /\ chunksSeen' = 0
    /\ UNCHANGED << mode, dl_pc, override, disposition, urlPath, cancelGiven,
                    cancelSet, files, received, requests, errLog, cleanups,
                    lastProgress, cancelObserved, lateChunks, failedPath,
                    result >>

\* download_file returned download_path; 4. the is_archive branch
DownloadReturns ==
    /\ pc = "Downloading"
    /\ dl_pc = "returned"
    /\ completed' = Append(completed, "Download")
    /\ pc' = AfterDownload(result.path)
    /\ IF pc' = "Extract"
       THEN Emit(<< Status("Download complete"), Status("Extracting archive") >>)
       ELSE Emit(<< Status("Download complete"),
                    Status("File is already an ISO") >>)
    /\ FrameLeft
    /\ UNCHANGED << exc, failedStage, stages, progressEvent, tempVars, destVars,
                    dest0, fmt, spaceFree, cleanupCalls, installPath >>
    /\ UNCHANGED svcVars

\* download_file raised
DownloadRaises ==
    /\ pc = "Downloading"
    /\ dl_pc \in {"raised", "crashed"}
    /\ pc' = "raising"
    /\ exc' = [type |-> result.kind, cause |-> result]
    /\ failedStage' = "Download"
    /\ FrameLeft
    /\ UNCHANGED << stages, completed, evVars, tempVars, destVars, dest0, fmt,
                    spaceFree, cleanupCalls, installPath >>
    /\ UNCHANGED svcVars

\* temp_dir / "extracted", relative to temp_dir
ExtractDir == << "extracted" >>

\* what an archive may leave under temp_dir/extracted: nothing; no name
\* ending in .iso but that of a directory; two images at different depths
\* next to a directory named like an image
ExtractOutputs ==
    { {},
      { [path |-> << "readme.txt" >>, kind |-> "file"],
        [path |-> << "x.iso" >>, kind |-> "dir"] },
      { [path |-> << "0.iso" >>, kind |-> "dir"],
        [path |-> << "disc" >>, kind |-> "dir"],
        [path |-> << "disc", "game.iso" >>, kind |-> "file"],
        [path |-> << "game.iso" >>, kind |-> "file"] } }

\* the names matched by the pattern "*.iso"
IsoNames == {"0.iso", "game.iso", "x.iso"}

\* place of a name in the order of str
NameRank(name) ==
    CASE name = "0.iso"      -> 1
      [] name = "disc"       -> 2
      [] name = "game.iso"   -> 3
      [] name = "readme.txt" -> 4
      [] name = "x.iso"      -> 5

\* p < q for two Paths: their parts are compared from the left
RECURSIVE PathLess(_, _)
PathLess(p, q) ==
    IF q = << >> THEN FALSE
    ELSE IF p = << >> THEN TRUE
    ELSE IF Head(p) # Head(q) THEN NameRank(Head(p)) < NameRank(Head(q))
    ELSE PathLess(Tail(p), Tail(q))

\* _find_iso(temp_dir/extracted): the first of sorted(rglob("*.iso")) that is
\* a file, None (NoPath) when there is none
FindIso(out) ==
    LET candidates == { e \in out : e.path[Len(e.path)] \in IsoNames }
        images     == { e \in candidates : e.kind = "file" }
    IN  IF images = {} THEN NoPath
        ELSE ExtractDir \o
             (CHOOSE e \in images :
                 \A o \in images : o = e \/ PathLess(e.path, o.path)).path

\* the extract block handing the downloaded archive itself to step 5
IsoPathNeverSearched(downloadPath, out) == downloadPath

\* iso_path when step 5 is reached: download_path, replaced by the image
\* found when the download is an archive
IsoPath(downloadPath, out) ==
    IF IsArchive(PathName(downloadPath)) THEN FindIso(out) ELSE downloadPath

\* 4. extract(download_path, temp_dir/extracted) and _find_iso
StageExtract ==
    /\ pc = "Extract"
    /\ \E out \in ExtractOutputs :
          /\ extractOut' = out
          /\ \/ /\ \E reason \in {"corrupt", "traversal", "no backend"} :
                      Fail("Extract", ExtractionError(reason))
                /\ UNCHANGED evVars
             \/ /\ FindIso(out) = NoPath
                /\ Fail("Extract", ExtractionError("no iso"))
                /\ UNCHANGED evVars
             \/ /\ FindIso(out) # NoPath
                /\ Advance("Extract")
                /\ Emit(<< Status("ISO found") >>)
                /\ UNCHANGED progressEvent
    /\ extractedDir' = TRUE
    /\ UNCHANGED << tempExists, convertedDir, convOut, destVars, dest0, fmt,
                    spaceFree, cleanupCalls, installPath, dlVars >>
    /\ UNCHANGED svcVars

\* 5. convert_iso(iso_path, temp_dir/converted, fmt)
StageConvert ==
    /\ pc = "Convert"
    /\ \E base \in BasePaths, mkdirOk \in BOOLEAN, binExists \in BOOLEAN,
          pr \in PipelineProcs :
          LET c1 == ConvertEnter(conv, IsoPath(result.path, extractOut), fmt, TRUE,
                                 base, mkdirOk, binExists)
              c2 == IF c1.status = "running" THEN ConvertFinish(c1, pr) ELSE c1
          IN  /\ conv' = c2
              /\ convertedDir' = (convertedDir \/ mkdirOk)
              /\ IF c2.status = "returned"
                 THEN /\ Advance("Convert")
                      /\ \E out \in ConvOutputs : convOut' = out
                      /\ Emit(<< Status("Converting ISO"), Status("Conversion complete.") >>)
                 ELSE /\ Fail("Convert", c2.raised)
                      /\ \E out \in {{}, {"a.xex"}} :
                            convOut' = IF c2.launches = 0 THEN {} ELSE out
                      /\ Emit(<< Status("Converting ISO") >>)
    /\ UNCHANGED << progressEvent, tempExists, extractedDir, extractOut, destVars, dest0, fmt,
                    spaceFree, cleanupCalls, installPath, dlVars >>
    /\ UNCHANGED << cv_pc, ex_pc, ex, dk_pc, dk, ins_pc, ins, mw, ad >>

\* 6. install(temp_dir/converted, install_dir)
StageInstall ==
    /\ pc = "Install"
    /\ LET target == InstallTarget(convOut, "converted")
           storageError == [type |-> "StorageError", reason |-> "move"]
       IN
       \/ \* dest_dir.mkdir or source_dir.iterdir raises
          /\ Fail("Install", OSError)
          /\ Emit(<< Status("Installing to") >>)
          /\ UNCHANGED << destVars, convOut, installPath >>
       \/ /\ NoOutput(convOut)
          /\ Fail("Install", StorageError("empty"))
          /\ Emit(<< Status("Installing to") >>)
          /\ destExists' = TRUE
          /\ UNCHANGED << dest, convOut, installPath >>
       \/ \* single directory: rmtree or move raises, or both succeed
          /\ SingleDir(convOut)
          /\ destExists' = TRUE
          /\ \/ /\ Exists(dest, target)
                /\ Fail("Install", storageError)
                /\ Emit(<< Status("Installing to") >>)
                /\ UNCHANGED << dest, convOut, installPath >>
             \/ /\ Fail("Install", storageError)
                /\ Emit(<< Status("Installing to") >>)
                /\ dest' = Remove(dest, target)
                /\ UNCHANGED << convOut, installPath >>
             \/ /\ Advance("Install")
                /\ Emit(<< Status("Installing to"), Status("Installed at") >>)
                /\ dest' = Replace(dest, target)
                /\ convOut' = {}
                /\ installPath' = target
       \/ \* several entries, or one file: moved one by one into dest/converted
          /\ ~NoOutput(convOut)
          /\ ~SingleDir(convOut)
          /\ destExists' = TRUE
          /\ \/ \E moved \in SUBSET convOut :
                  /\ moved # convOut
                  /\ Fail("Install", storageError)
                  /\ Emit(<< Status("Installing to") >>)
                  /\ \E f \in convOut \ moved, removed \in BOOLEAN :
                        dest' = LET t == ReplaceAll(MkdirExistOk(dest, target),
                                                    target, moved)
                                IN  IF removed THEN Remove(t, target \o << f >>)
                                    ELSE t
                  /\ convOut' = convOut \ moved
                  /\ UNCHANGED installPath
             \/ /\ Advance("Install")
                /\ Emit(<< Status("Installing to"), Status("Installed at") >>)
                /\ dest' = ReplaceAll(MkdirExistOk(dest, target), target, convOut)
                /\ convOut' = {}
                /\ installPath' = target
    /\ UNCHANGED << progressEvent, tempExists, extractedDir, extractOut, convertedDir, dest0,
                    fmt, spaceFree, cleanupCalls, dlVars >>
    /\ UNCHANGED svcVars

\* cleanup_temp letting the OSError of rmtree through
CleanupTempRaising(exists, rmtreeOk) ==
    [exists |-> exists /\ ~rmtreeOk,
     raised |-> IF exists /\ ~rmtreeOk THEN OSError ELSE None]

\* cleanup_temp(temp_dir): rmtree when the directory exists; an OSError is
\* logged as a warning and not raised
CleanupTemp(exists, rmtreeOk) ==
    [exists |-> exists /\ ~rmtreeOk, raised |-> None]

\* 7. cleanup_temp(temp_dir): rmtree succeeds, or its OSError is swallowed
StageCleanup ==
    /\ pc = "Cleanup"
    /\ cleanupCalls' = cleanupCalls + 1
    /\ \E rmtreeOk \in BOOLEAN :
          LET r == CleanupTemp(tempExists, rmtreeOk)
          IN  /\ tempExists' = r.exists
              /\ IF r.raised = None
                 THEN /\ Advance("Cleanup")
                      /\ Emit(CleanupEvents)
                 ELSE /\ Fail("Cleanup", r.raised)
                      /\ Emit(<< Status("Cleaning up temporary files") >>)
    /\ UNCHANGED << progressEvent, extractedDir, extractOut, convertedDir, convOut, destVars,
                    dest0, fmt, spaceFree, installPath, dlVars >>
    /\ UNCHANGED svcVars

\* 8. self.finished.emit(str(install_path))
StageDone ==
    /\ pc = "Done"
    /\ Advance("Done")
    /\ Emit(DoneEvents(installPath))
    /\ UNCHANGED << progressEvent, tempVars, destVars, dest0, fmt, spaceFree,
                    cleanupCalls, installPath, dlVars >>
    /\ UNCHANGED svcVars

\* the except clauses of run()
RunExcept ==
    /\ pc = "raising"
    /\ pc' = "failed"
    /\ Emit(ExceptEvents(exc))
    /\ cleanupCalls' = IF CleanupOnFailure THEN cleanupCalls + 1 ELSE cleanupCalls
    /\ tempExists' = IF CleanupOnFailure THEN FALSE ELSE tempExists
    /\ UNCHANGED << exc, failedStage, stages, completed, progressEvent,
                    extractedDir, extractOut, convertedDir, convOut, destVars, dest0, fmt,
                    spaceFree, installPath, dlVars >>
    /\ UNCHANGED svcVars

\* ------------------------------------------------------ one InstallWorker run
Init ==
    /\ mode = "pipeline"
    /\ \E cd \in Dispositions, path \in UrlPaths :
          DownloadEntry("idle", NoName, cd, path, FALSE)
    /\ \E d \in DestStates, f \in Formats : WorkerEntry("Init", d, f)
    /\ InstallUnused /\ WindowUnused /\ AsyncUnused
    /\ ConvertUnused /\ ExtractUnused /\ DiskUnused

Next ==
    \/ StageInit
    \/ StageSpaceCheck
    \/ DownloadCall
    \/ AttemptRequestFails
    \/ AttemptOpens
    \/ AttemptCrashes
    \/ ChunkReceived
    \/ StreamFails
    \/ StreamEnds
    \/ DownloadReturns
    \/ DownloadRaises
    \/ StageExtract
    \/ StageConvert
    \/ StageInstall
    \/ StageCleanup
    \/ StageDone
    \/ RunExcept

Spec == Init /\ [][Next]_vars

\* the worker's thread runs on once install has returned: cleanup_temp and
\* the emit of finished are eventually executed
SpecFair == Spec /\ WF_vars(StageCleanup) /\ WF_vars(StageDone)

\* ---------------------------------------- download_file called on its own
InitDownload ==
    /\ mode = "direct"
    /\ \E ov \in Overrides \cup HostileNames,
          cd \in Dispositions \cup HostileDispositions,
          path \in UrlPaths \cup HostileUrlPaths,
          cg \in BOOLEAN :
            /\ Cardinality({ov} \cap HostileNames)
                 + Cardinality({cd} \cap HostileDispositions)
                 + Cardinality({path} \cap HostileUrlPaths) <= 1
            /\ DownloadEntry("attempt", ov, cd, path, cg)
    /\ WorkerEntry("unused", [exists |-> TRUE, tree |-> {}], "XEX")
    /\ InstallUnused /\ WindowUnused /\ AsyncUnused
    /\ ConvertUnused /\ ExtractUnused /\ DiskUnused

NextDownload ==
    \/ AttemptRequestFails
    \/ AttemptOpens
    \/ AttemptCrashes
    \/ ChunkReceived
    \/ StreamFails
    \/ StreamEnds
    \/ SetCancel

SpecDownload == InitDownload /\ [][NextDownload]_vars

\* download_file on its own, every enabled step eventually taken: an attempt
\* that was started ends, and a stream that is open delivers or closes
SpecDownloadFair == SpecDownload /\ WF_vars(NextDownload)

\* ------------------------------------------ convert_iso called on its own
InitConvert ==
    /\ mode = "direct"
    /\ DownloadEntry("unused", NoName, NoHeader, << <<"files">>, <<"game.iso">> >>, FALSE)
    /\ \E f \in Formats \cup {"ISO", ""} :
          WorkerEntry("unused", [exists |-> TRUE, tree |-> {}], f)
    /\ InstallUnused /\ WindowUnused /\ AsyncUnused
    /\ cv_pc = "call" /\ conv = ConvIdle
    /\ ExtractUnused /\ DiskUnused

NextConvert ==
    \/ ConvertCall
    \/ SubprocessEnds

SpecConvert == InitConvert /\ [][NextConvert]_vars

\* ------------------------------------------------------------- MainWindow
\* tempfile.gettempdir()
TempRoot == << "tmp" >>

NoTemp == << >>

\* a working directory whose name does not depend on the value drawn
TempNameShared(u) == TempRoot \o << << "romtool_", 0 >> >>

\* Path(tempfile.gettempdir()) / f"romtool_{uuid.uuid4().hex}", u the value
\* uuid4 returned
TempName(u) == TempRoot \o << << "romtool_", u >> >>

\* the window before the first click on Download
WindowIdle ==
    [busy |-> FALSE, requests |-> << >>, workers |-> << >>, queue |-> << >>,
     dialogs |-> << >>, uuids |-> 0, tempDirs |-> {}]

\* InstallWorker(mirror, install_dir, fmt, parent) followed by start()
NewWorker(r, index) ==
    [request |-> r, index |-> index, st |-> "started", temp |-> NoTemp,
     created |-> {}, raised |-> FALSE, signal |-> "none"]

\* _set_busy: the download button, the load button and the list are enabled
\* when not busy
SetBusy(m, busy) == [m EXCEPT !.busy = busy]

\* process_next starting the worker of the following item along with the
\* one asked for
ProcessNextEager(m, r, index) ==
    IF index >= m.requests[r].n
    THEN [SetBusy(m, FALSE) EXCEPT !.requests[r].complete = TRUE]
    ELSE IF index + 1 < m.requests[r].n
         THEN [m EXCEPT !.workers = @ \o << NewWorker(r, index),
                                            NewWorker(r, index + 1) >>]
         ELSE [m EXCEPT !.workers = Append(@, NewWorker(r, index))]

\* process_next(index) of request r: past the last item the window is set
\* idle, otherwise one worker is created for selected_items[index] and started
ProcessNext(m, r, index) ==
    IF index >= m.requests[r].n
    THEN [SetBusy(m, FALSE) EXCEPT !.requests[r].complete = TRUE]
    ELSE [m EXCEPT !.workers = Append(@, NewWorker(r, index))]

\* _on_worker_finished and _on_worker_error up to their message box
OnWorkerFinished(m) == SetBusy(m, FALSE)

OnWorkerError(m) == SetBusy(m, FALSE)

\* an error slot that does not go on to the next item
ErrorConnectedStops(m, w) == m

\* the rest of the lambda connected to worker.error
ErrorConnected(m, w) ==
    ProcessNext(m, m.workers[w].request, m.workers[w].index + 1)

\* the rest of the lambda connected to worker.finished
FinishedConnected(m, w) ==
    ProcessNext(m, m.workers[w].request, m.workers[w].index + 1)

\* the workers of request r, in the order they were started
WorkersOf(m, r) == SelectSeq(m.workers, LAMBDA x : x.request = r)

\* items selected by the requests made so far
RECURSIVE Selected(_)
Selected(rs) ==
    IF rs = << >> THEN 0
    ELSE Head(rs).n + Selected(Tail(rs))

\* _on_download: a click on the enabled download button; without a
\* destination or a selection it only warns and returns
OnDownload ==
    /\ mw # None
    /\ ~mw.busy
    /\ mw.dialogs = << >>
    /\ \E destGiven \in BOOLEAN, n \in 0..(MaxItems - Selected(mw.requests)) :
          LET r == Len(mw.requests) + 1
              asked == [mw EXCEPT !.requests =
                           Append(@, [n |-> n, complete |-> FALSE])]
          IN  mw' = IF ~destGiven \/ n = 0
                    THEN mw
                    ELSE ProcessNext(SetBusy(asked, TRUE), r, 0)
    /\ UNCHANGED << dlVars, pipeVars, cv_pc, conv, ex_pc, ex, dk_pc, dk, ins_pc, ins, ad >>

\* the first step of _run_pipeline on the worker's thread: the name is drawn
\* (uuid4 returns a value it has not returned before; the values are numbered
\* in the order drawn) and mkdir(parents=True, exist_ok=True) creates the
\* directory unless it is there already, or raises
WorkerInit ==
    /\ mw # None
    /\ \E w \in DOMAIN mw.workers, mkdirOk \in BOOLEAN :
          /\ mw.workers[w].st = "started"
          /\ LET u == mw.uuids + 1
                 t == TempName(u)
             IN  mw' = IF mkdirOk
                       THEN [mw EXCEPT !.uuids = u,
                                       !.tempDirs = @ \cup {t},
                                       !.workers[w].st = "running",
                                       !.workers[w].temp = t,
                                       !.workers[w].created =
                                           IF t \in mw.tempDirs THEN {} ELSE {t}]
                       ELSE [mw EXCEPT !.uuids = u,
                                       !.workers[w].st = "running",
                                       !.workers[w].temp = t,
                                       !.workers[w].raised = TRUE]
    /\ UNCHANGED << dlVars, pipeVars, cv_pc, conv, ex_pc, ex, dk_pc, dk, ins_pc, ins, ad >>

\* the run ends: finished after cleanup_temp, which removes the working
\* directory or fails to, or error from an except clause of run(); the signal
\* is queued for the window's thread
WorkerEnds ==
    /\ mw # None
    /\ \E w \in DOMAIN mw.workers, signal \in {"finished", "error"},
          removed \in BOOLEAN :
          /\ mw.workers[w].st = "running"
          /\ mw.workers[w].raised => signal = "error"
          /\ signal = "error" => ~removed
          /\ mw' = [mw EXCEPT !.workers[w].st = "emitted",
                              !.workers[w].signal = signal,
                              !.queue = Append(@, w),
                              !.tempDirs = IF removed
                                           THEN @ \ {mw.workers[w].temp}
                                           ELSE @]
    /\ UNCHANGED << dlVars, pipeVars, cv_pc, conv, ex_pc, ex, dk_pc, dk, ins_pc, ins, ad >>

\* the window's thread takes the oldest queued signal: _on_worker_finished or
\* _on_worker_error runs up to its modal message box
SlotEnter ==
    /\ mw # None
    /\ mw.queue # << >>
    /\ LET w == Head(mw.queue)
           m == [mw EXCEPT !.queue = Tail(@),
                           !.dialogs = << w >> \o @,
                           !.workers[w].st = "dialog"]
       IN  mw' = IF mw.workers[w].signal = "error"
                 THEN OnWorkerError(m)
                 ELSE OnWorkerFinished(m)
    /\ UNCHANGED << dlVars, pipeVars, cv_pc, conv, ex_pc, ex, dk_pc, dk, ins_pc, ins, ad >>

\* the topmost message box is dismissed and its lambda goes on with
\* process_next(index + 1)
SlotLeave ==
    /\ mw # None
    /\ mw.dialogs # << >>
    /\ LET w == Head(mw.dialogs)
           m == [mw EXCEPT !.dialogs = Tail(@),
                           !.workers[w].st = "handled"]
       IN  mw' = IF mw.workers[w].signal = "error"
                 THEN ErrorConnected(m, w)
                 ELSE FinishedConnected(m, w)
    /\ UNCHANGED << dlVars, pipeVars, cv_pc, conv, ex_pc, ex, dk_pc, dk, ins_pc, ins, ad >>

InitWindow ==
    /\ mode = "direct"
    /\ DownloadEntry("unused", NoName, NoHeader, << <<"files">>, <<"game.iso">> >>, FALSE)
    /\ WorkerEntry("unused", [exists |-> TRUE, tree |-> {}], "XEX")
    /\ ConvertUnused /\ ExtractUnused /\ DiskUnused /\ InstallUnused
    /\ AsyncUnused
    /\ mw = WindowIdle

NextWindow ==
    \/ OnDownload
    \/ WorkerInit
    \/ WorkerEnds
    \/ SlotEnter
    \/ SlotLeave

SpecWindow == InitWindow /\ [][NextWindow]_vars

\* worker threads run on, queued signals are delivered and message boxes are
\* dismissed
SpecWindowFair ==
    /\ SpecWindow
    /\ WF_vars(WorkerInit)
    /\ WF_vars(WorkerEnds)
    /\ WF_vars(SlotEnter)
    /\ WF_vars(SlotLeave)

\* ------------------------------------------------- download_service_async
\* what one attempt meets: the body arrives whole, the connection fails,
\* the server answers with a non-2xx status, or writing the file fails
AttemptOutcomes == {"success", "network", "status", "io"}

DownloadError(reason) == [type |-> "DownloadError", reason |-> reason]

\* _attempt_download: what it returns or raises for an outcome; the
\* HTTPStatusError of raise_for_status is caught and raised as DownloadError
AttemptDownload(outcome) ==
    CASE outcome = "success" -> [type |-> "path"]
      [] outcome = "network" -> DownloadError("Network error during download")
      [] outcome = "status"  -> DownloadError("Server returned HTTP")
      [] outcome = "io"      -> DownloadError("I/O error writing download to disk")

\* _attempt_download_async: its except clauses name httpx.RequestError and
\* OSError; httpx.HTTPStatusError is neither and leaves it as it is
AttemptDownloadAsync(outcome) ==
    CASE outcome = "success" -> [type |-> "path"]
      [] outcome = "network" -> DownloadError("Network error during download")
      [] outcome = "status"  -> [type |-> "HTTPStatusError"]
      [] outcome = "io"      -> DownloadError("I/O error writing download to disk")

\* a retry loop before its first attempt
LoopIdle ==
    [attempt |-> 1, attempts |-> 0, cleanups |-> 0, st |-> "running",
     result |-> None]

\* one iteration of `for attempt in range(1, MAX_RETRIES + 1)` of
\* download_file, r being what _attempt_download did
DownloadFileStep(run, r) ==
    LET made == [run EXCEPT !.attempts = @ + 1]
    IN  IF r.type = "path"
        THEN [made EXCEPT !.st = "returned", !.result = r]
        ELSE IF r.type # "DownloadError"
        THEN [made EXCEPT !.st = "raised", !.result = r]
        ELSE LET cleaned == IF RetryFollows(run.attempt)
                            THEN [made EXCEPT !.cleanups = @ + 1] ELSE made
             IN  IF LoopContinues(run.attempt)
                 THEN [cleaned EXCEPT !.attempt = @ + 1]
                 ELSE [cleaned EXCEPT !.st = "raised",
                                      !.result = DownloadError("Download failed after 3 attempts")]

\* one iteration of the loop of download_file_async, r being what
\* _attempt_download_async did
DownloadFileAsyncStep(run, r) ==
    LET made == [run EXCEPT !.attempts = @ + 1]
    IN  IF r.type = "path"
        THEN [made EXCEPT !.st = "returned", !.result = r]
        ELSE IF r.type # "DownloadError"
        THEN [made EXCEPT !.st = "raised", !.result = r]
        ELSE LET cleaned == IF run.attempt < MAX_RETRIES
                            THEN [made EXCEPT !.cleanups = @ + 1] ELSE made
             IN  IF run.attempt < MAX_RETRIES
                 THEN [cleaned EXCEPT !.attempt = @ + 1]
                 ELSE [cleaned EXCEPT !.st = "raised",
                                      !.result = DownloadError("Download failed after 3 attempts")]

\* download_file makes its next attempt
SyncAttempt ==
    /\ ad # None
    /\ ad.sync.st = "running"
    /\ ad' = [ad EXCEPT !.sync =
                 DownloadFileStep(@, AttemptDownload(ad.outcomes[ad.sync.attempt]))]
    /\ UNCHANGED << dlVars, pipeVars, cv_pc, conv, ex_pc, ex, dk_pc, dk, ins_pc,
                    ins, mw >>

\* download_file_async makes its next attempt
AsyncAttempt ==
    /\ ad # None
    /\ ad.async.st = "running"
    /\ ad' = [ad EXCEPT !.async =
                 DownloadFileAsyncStep(@, AttemptDownloadAsync(ad.outcomes[ad.async.attempt]))]
    /\ UNCHANGED << dlVars, pipeVars, cv_pc, conv, ex_pc, ex, dk_pc, dk, ins_pc,
                    ins, mw >>

\* both functions are called for a download whose k-th attempt meets the
\* k-th outcome
InitAsync ==
    /\ mode = "direct"
    /\ DownloadEntry("unused", NoName, NoHeader, << <<"files">>, <<"game.iso">> >>, FALSE)
    /\ WorkerEntry("unused", [exists |-> TRUE, tree |-> {}], "XEX")
    /\ ConvertUnused /\ ExtractUnused /\ DiskUnused /\ InstallUnused
    /\ WindowUnused
    /\ \E outcomes \in [1..MAX_RETRIES -> AttemptOutcomes] :
          ad = [outcomes |-> outcomes, sync |-> LoopIdle, async |-> LoopIdle]

NextAsync ==
    \/ SyncAttempt
    \/ AsyncAttempt

SpecAsync == InitAsync /\ [][NextAsync]_vars

\* ------------------------------------------------------------------ claims
Range(q) == { q[k] : k \in DOMAIN q }

IsPrefix(q, t) == Len(q) <= Len(t) /\ SubSeq(t, 1, Len(q)) = q

StageOrder ==
    << "Init", "SpaceCheck", "Download", "Extract", "Convert", "Install",
       "Cleanup", "Done" >>

StageOrderNoExtract ==
    << "Init", "SpaceCheck", "Download", "Convert", "Install", "Cleanup",
       "Done" >>

StagesAfter(stage) ==
    { StageOrder[k] : k \in { j \in 1..Len(StageOrder) :
                              \E h \in 1..(j - 1) : StageOrder[h] = stage } }

\* C1: the stages of one run start in the order Init, SpaceCheck, Download,
\* (Extract), Convert, Install, Cleanup, Done; a stage starts only when every
\* stage started before it has returned; a run that ends with finished has
\* run every stage once, Extract at most once.
C1_StagesInOrder ==
    /\ \/ IsPrefix(stages, StageOrder)
       \/ IsPrefix(stages, StageOrderNoExtract)
    /\ IsPrefix(completed, stages)
    /\ Len(stages) <= Len(completed) + 1
    /\ pc = "finished" => completed \in {StageOrder, StageOrderNoExtract}

C1_Witness ==
    /\ pc = "finished"
    /\ completed = StageOrder

\* C2: when SpaceCheck, Download, Extract, Convert or Install fails, no later
\* stage is started, cleanup_temp is not called, and the temporary directory
\* and what it holds are the same when the error event is emitted as they
\* were when the stage raised.
C2_FailureKeepsTemp ==
    /\ [](failedStage \in {"SpaceCheck", "Download", "Extract", "Convert",
                          "Install"}
            => /\ stages[Len(stages)] = failedStage
               /\ Range(stages) \cap StagesAfter(failedStage) = {}
               /\ cleanupCalls = 0
               /\ tempExists)
    /\ [][pc = "raising" => /\ tempVars' = tempVars
                            /\ files' = files
                            /\ cleanupCalls' = cleanupCalls]_vars

C2_Witness ==
    /\ pc = "failed"
    /\ failedStage = "Install"
    /\ Len(terminal) = 1
    /\ tempExists
    /\ DOMAIN files # {}

\* C3: a run that has ended has emitted exactly one terminal event, finished
\* on success and error on any failure, unexpected ones included; a run that
\* has not ended has emitted none; no status or progress event follows it.
C3_OneTerminalEvent ==
    /\ lateEvents = 0
    /\ pc \notin {"finished", "failed"} => terminal = << >>
    /\ pc = "finished" => /\ Len(terminal) = 1
                          /\ terminal[1].kind = "finished"
    /\ pc = "failed" => /\ Len(terminal) = 1
                        /\ terminal[1].kind = "error"

C3_Witness ==
    /\ pc = "failed"
    /\ exc.type \in {"OSError", "ValueError"}
    /\ Len(terminal) = 1

C5_NoRequestWhenDiskFull ==
    (spaceFree # -1 /\
     spaceFree < FALLBACK_SIZE_ESTIMATE + DISK_SAFETY_BUFFER_BYTES)
        => /\ failedStage = "SpaceCheck"
           /\ pc \in {"raising", "failed"}
           /\ pc = "failed" => /\ Len(terminal) = 1
                               /\ terminal[1].kind = "error"
           /\ "Download" \notin Range(stages)
           /\ dl_pc = "idle"
           /\ requests = 0

C5_Witness ==
    /\ pc = "failed"
    /\ spaceFree = FALLBACK_SIZE_ESTIMATE + DISK_SAFETY_BUFFER_BYTES - 1
    /\ exc.type = "InsufficientDiskSpaceError"

\* C6: download_file issues at most 3 attempts; the i-th failure is the
\* failure of attempt i; it returns at the first attempt that succeeds; after
\* 3 failed attempts it raises a DownloadError carrying the error of the
\* third; and every call ends.
C6_AtMostThreeAttempts ==
    /\ [](/\ requests <= 3
          /\ attempt \in 1..3
          /\ \A k \in 1..Len(errLog) : errLog[k].attempt = k
          /\ dl_pc = "attempt" => /\ requests = Len(errLog)
                                  /\ attempt = Len(errLog) + 1
          /\ dl_pc = "streaming" => /\ requests = Len(errLog) + 1
                                    /\ attempt = requests
          /\ dl_pc = "returned" => /\ result.kind = "path"
                                   /\ requests = Len(errLog) + 1
          /\ dl_pc = "raised" => /\ Len(errLog) = 3
                                 /\ requests = 3
                                 /\ result.kind = "DownloadError"
                                 /\ result.last = errLog[3])
    /\ <>(dl_pc \in {"returned", "raised", "crashed"})

C6_Witness ==
    /\ dl_pc = "raised"
    /\ { errLog[k].kind : k \in 1..3 } = {"network", "http", "io"}

\* C7: when an attempt has failed and the next one is about to start, the
\* file the failed attempt had opened is no longer in the destination
\* directory.
C7_PartialRemovedBeforeRetry ==
    (dl_pc = "attempt" /\ attempt > 1 /\ failedPath # NoPath)
        => failedPath \notin DOMAIN files

\* C8: once the cancel check between chunks has raised, download_file issues
\* no further request, starts no further attempt and writes no further chunk,
\* and the failure it raises is the cancellation.
C8_CancelAborts ==
    /\ [][cancelObserved => /\ requests' = requests
                            /\ attempt' = attempt
                            /\ lateChunks' = lateChunks]_vars
    /\ [](cancelObserved /\ dl_pc = "raised" => result.last.kind = "cancelled")

\* C9: a run whose download failed on k attempts (k = 1 or 2) and then
\* succeeded has made exactly k partial-file cleanups, does not fail at the
\* download stage, and ends with finished and no error event when the stages
\* after the download succeed.
C9_RetryThenSucceed ==
    \A k \in {1, 2} :
        ("Download" \in Range(completed) /\ Len(errLog) = k)
            => /\ cleanups = k
               /\ requests = k + 1
               /\ failedStage # "Download"
               /\ pc = "finished" => terminal = << Finished(installPath) >>
               /\ (pc \in {"raising", "failed"})
                    => failedStage \in {"Extract", "Convert", "Install"}

C9_Witness ==
    /\ pc = "finished"
    /\ Len(errLog) = 2
    /\ \A k \in 1..2 : errLog[k].kind = "network"
    /\ cleanups = 2
    /\ terminal = << Finished(installPath) >>

\* C10 as stated: when download_file returns, the file at the returned path
\* is as long as the chunks received in the successful attempt, and the last
\* progress callback reported (that length, total).
C10_LastProgressAlways ==
    dl_pc = "returned"
        => /\ files[result.path] = received
           /\ lastProgress = << received, totalBytes >>

\* C10: when download_file returns, the file at the returned path is as long
\* as the chunks received in the successful attempt; if that attempt received
\* a non-empty chunk, the last progress callback reported (that length,
\* total); with Content-Length 100 and a 100-byte body it reported (100, 100).
C10_FileLengthAndLastProgress ==
    dl_pc = "returned"
        => /\ files[result.path] = received
           /\ received > 0 => lastProgress = << received, totalBytes >>
           /\ (totalBytes = 100 /\ received = 100)
                => lastProgress = << 100, 100 >>

C10_Witness ==
    /\ dl_pc = "returned"
    /\ received = 100
    /\ totalBytes = 100
    /\ lastProgress = << 100, 100 >>
    /\ failedPath = result.path
    /\ Len(errLog) = 2

\* C11: the name an attempt writes to is the last component of the first
\* available of override, Content-Disposition filename, last URL segment and
\* "download.bin", and every file the download creates is a direct child of
\* the destination directory.
C11_WritesOnlyDirectChildren ==
    /\ \A p \in DOMAIN files : Len(p) = 1 /\ p[1] \notin {"", "..", "/"}
    /\ dl_pc = "streaming" =>
         LET hdr   == FilenameFromHeaders(disposition)
             seg   == urlPath[Len(urlPath)]
             first == CASE override # NoName -> override
                        [] override = NoName /\ hdr # NoName -> hdr
                        [] override = NoName /\ hdr = NoName /\ seg # NoName
                             -> seg
                        [] OTHER -> << "download.bin" >>
         IN  /\ destPath = << first[Len(first)] >>
             /\ destPath \in DOMAIN files

C11_Witness ==
    /\ dl_pc = "streaming"
    /\ override = NoName
    /\ FilenameFromHeaders(disposition) = << "..", "..", "evil.iso" >>
    /\ destPath = << "evil.iso" >>
    /\ files[destPath] > 0

C17_BinaryResolvedAndChecked ==
    conv.lookups > 0
        => /\ conv.candidate \in
                { b \o << "bin", n >> : b \in (BasePaths \ {NoPath}) \cup {Cwd},
                                         n \in {"exiso.exe", "iso2god.exe"} }
           /\ conv.candidate[Len(conv.candidate)]
                = (IF conv.fmt = "XEX" THEN "exiso.exe" ELSE "iso2god.exe")
           /\ SubSeq(conv.candidate, 1, Len(conv.candidate) - 2)
                = (IF conv.base = NoPath THEN Cwd ELSE conv.base)
           /\ conv.launches > 0 => conv.binExists /\ conv.cmd[1] = conv.candidate
           /\ ~conv.binExists
                => /\ conv.status = "raised"
                   /\ conv.raised = ConversionError("Conversion binary not found")
                   /\ conv.launches = 0
                   /\ conv.progress = << >>

C17_Witness ==
    /\ cv_pc = "raised"
    /\ conv.lookups = 1
    /\ ~conv.binExists
    /\ conv.cb
    /\ conv.fmt = "GOD"
    /\ conv.raised = ConversionError("Conversion binary not found")
    /\ conv.launches = 0

\* C18: in one pipeline run convert_iso is called at most once and the tool
\* is launched at most once, also after a conversion failure; every stage is
\* entered at most once, and only the download repeats its work (requests).
C18_ConversionNeverRetried ==
    /\ conv.calls <= 1
    /\ conv.launches <= 1
    /\ \A i, j \in DOMAIN stages : stages[i] = stages[j] => i = j
    /\ failedStage = "Convert" => conv.calls = 1 /\ pc \in {"raising", "failed"}
    /\ requests <= MAX_RETRIES

C18_Witness ==
    /\ pc = "failed"
    /\ failedStage = "Convert"
    /\ exc.type = "ConversionError"
    /\ exc.reason = "exited with code"
    /\ conv.calls = 1
    /\ conv.launches = 1
    /\ requests = MAX_RETRIES

\* C19: once the tool has been launched, convert_iso returns exactly when the
\* process ran, was not timed out and exited with 0; a non-zero exit raises
\* ConversionError with the exit code and a prefix of at most 500 characters
\* of stdout and of stderr; a timeout raises ConversionError with the
\* time-limit reason, which is neither the exit-code nor the missing-binary
\* reason.
C19_SuccessIffExitZeroInTime ==
    conv.launches > 0
        => LET pr == conv.proc
               inTime == pr.kind = "ran" /\ pr.elapsed <= CONVERT_TIMEOUT
           IN  /\ conv.status = "returned" <=> (inTime /\ pr.code = 0)
               /\ conv.status # "returned" => conv.raised.type = "ConversionError"
               /\ (inTime /\ pr.code # 0)
                    => /\ conv.raised.reason = "exited with code"
                       /\ conv.raised.code = pr.code
                       /\ IsPrefix(conv.raised.stdout, pr.stdout)
                       /\ IsPrefix(conv.raised.stderr, pr.stderr)
                       /\ Len(conv.raised.stdout) <= 500
                       /\ Len(conv.raised.stderr) <= 500
               /\ (pr.kind = "ran" /\ pr.elapsed > CONVERT_TIMEOUT)
                    => /\ conv.raised = ConversionError("exceeded the 1-hour time limit")
                       /\ conv.raised.reason
                            \notin {"exited with code", "Conversion binary not found",
                                    "executable not found"}

C19_Witness ==
    /\ cv_pc = "raised"
    /\ conv.launches = 1
    /\ conv.proc.kind = "ran"
    /\ conv.proc.code = 2
    /\ Len(conv.proc.stdout) > 500
    /\ Len(conv.raised.stdout) = 500
    /\ Len(conv.proc.stderr) = 499
    /\ conv.raised.stderr = conv.proc.stderr

\* C20: once the free space has been measured, check_disk_space raises
\* InsufficientDiskSpaceError exactly when free < required + the 512 MiB
\* buffer, so it returns when free = required + buffer; the error carries
\* required + buffer as required and the measured free space as available.
C20_DiskSpaceThreshold ==
    (dk_pc \in {"returned", "raised"} /\ dk.free # -1)
        => LET needed == dk.required + 512
           IN  /\ dk_pc = "raised" <=> dk.free < needed
               /\ dk_pc = "raised"
                    => dk.raised = [type |-> "InsufficientDiskSpaceError",
                                    required |-> needed, available |-> dk.free]
               /\ dk.free = needed => dk_pc = "returned" /\ dk.raised = None

C20_Witness ==
    /\ dk_pc = "returned"
    /\ dk.required = 100
    /\ dk.free = 612
    /\ dk.probe # dk.path

\* C12 as stated: every member a backend of extract has written had its
\* target path validated against the destination before it was written.
C12_WrittenMembersValidated ==
    \A k \in DOMAIN ex.written :
        /\ ex.written[k].checked
        /\ ex.written[k].member \in ex.checked

\* C13 as stated: for an archive with a member that leads out of the
\* destination (".." segments, absolute, backslash traversal), extract ends
\* by raising ExtractionError and no member is written outside the
\* destination.
C13_TraversalRejected ==
    (ex_pc # "unused" /\ \E i \in DOMAIN ex.members : ex.members[i] \in TraversalMembers)
        => /\ ex_pc # "returned"
           /\ ex_pc = "raised" => ex.raised.type \in {"ExtractionError", "OSError"}
           /\ \A k \in DOMAIN ex.written : Under(ex.written[k].target, ExDest)

\* C14 as stated: no member of an archive is written before every member
\* path of it has been validated, and when extract has rejected an archive
\* for a path-traversal member no member of it has been written.
C14_NothingWrittenOnRejection ==
    /\ ex_pc # "unused" /\ ex.written # << >> => ex.checked = DOMAIN ex.members
    /\ (ex_pc = "raised" /\ ex.tried # << >>
          /\ ex.tried[Len(ex.tried)].outcome = "rejected") => ex.written = << >>

\* C15 as stated: for a rar or 7z archive the native binding is tried first;
\* the universal tool is tried next both when the binding was unavailable
\* and when it failed; extract raises only if every applicable backend
\* failed or was unavailable, and a backend that succeeds is the last tried.
C15_FallbackOnUnavailableOrFailed ==
    (ex_pc \in {"returned", "raised"} /\ ex.tried # << >>
       /\ Dispatch(ex.suffixes) \in {"rar", "7z"})
        => /\ ex.tried[1].backend = Binding(Dispatch(ex.suffixes))
           /\ ex.tried[1].outcome \in {"unavailable", "failed"}
                => Len(ex.tried) = 2 /\ ex.tried[2].backend = "patool"
           /\ ex_pc = "returned" <=> ex.tried[Len(ex.tried)].outcome = "ok"
           /\ \A k \in 1..(Len(ex.tried) - 1) : ex.tried[k].outcome # "ok"

\* C15: for a rar or 7z archive the native binding is tried first; the
\* universal tool is tried next exactly when the binding was unavailable; a
\* binding that is available and fails (or rejects a member) makes extract
\* raise ExtractionError with the tool untried; extract returns exactly when
\* the last backend tried succeeded, and no backend is tried after a success.
C15_FallbackOnlyWhenUnavailable ==
    (ex_pc \in {"returned", "raised"} /\ ex.tried # << >>
       /\ Dispatch(ex.suffixes) \in {"rar", "7z"})
        => /\ ex.tried[1].backend = Binding(Dispatch(ex.suffixes))
           /\ ex.tried[1].outcome = "unavailable"
                <=> (Len(ex.tried) = 2 /\ ex.tried[2].backend = "patool")
           /\ ex.tried[1].outcome \in {"failed", "rejected"}
                => /\ Len(ex.tried) = 1
                   /\ ex_pc = "raised"
                   /\ ex.raised.type = "ExtractionError"
           /\ Len(ex.tried) <= 2
           /\ ex_pc = "returned" <=> ex.tried[Len(ex.tried)].outcome = "ok"
           /\ ex_pc = "raised" => ex.raised.type = "ExtractionError"
           /\ \A k \in 1..(Len(ex.tried) - 1) : ex.tried[k].outcome # "ok"

C15_Witness ==
    /\ ex_pc = "returned"
    /\ ex.suffixes = << ".rar", ".001" >>
    /\ "patoollib" \in ex.importable
    /\ Len(ex.tried) = 2
    /\ ex.tried[1] = [backend |-> "rarfile", outcome |-> "unavailable"]
    /\ ex.tried[2] = [backend |-> "patool", outcome |-> "ok"]
    /\ Len(ex.written) = Len(ex.members)

\* C21: the probe of check_disk_space is always the path or one of its
\* ancestors; when the free space is measured, the probe is the nearest
\* existing one (the path itself when it exists); for absolute and relative
\* paths alike the walk ends, at the latest at the path that is its own
\* parent, and check_disk_space returns or raises.
C21_WalkEndsAtNearestAncestor ==
    /\ [](/\ Len(dk.probe) >= 1
          /\ dk.probe = SubSeq(dk.path, 1, Len(dk.probe))
          /\ dk.free # -1
               => /\ Len(dk.probe) <= dk.depth
                  /\ Len(dk.probe) = Len(dk.path) \/ Len(dk.probe) = dk.depth
          /\ dk_pc \in {"returned", "raised"}
               => \/ Len(dk.probe) <= dk.depth
                  \/ dk.probe = Parent(dk.probe))
    /\ <>(dk_pc \in {"returned", "raised"})

C21_Witness ==
    /\ dk_pc = "returned"
    /\ dk.path = RelDiskPath
    /\ dk.depth = 1
    /\ dk.probe = << "." >>
    /\ dk.free # -1

\* C22: when install returns, the source was not empty; if it held exactly
\* one entry and that entry is a directory Foo, dest/Foo is returned and
\* holds Foo; in every other case dest/<name of source> is returned, is a
\* directory, and holds every entry of the source; the source is left empty.
C22_InstallBranches ==
    ins_pc = "returned"
        => LET ch == ins.children
               t  == ins.returned
           IN  /\ ch # {}
               /\ ins.src = {}
               /\ IF Cardinality(ch) = 1 /\ ch \subseteq {"Foo"}
                  THEN /\ t = << "Foo" >>
                       /\ [path |-> t, kind |-> "dir", origin |-> "Foo"] \in ins.tree
                  ELSE /\ t = << ins.sourceName >>
                       /\ IsDir(ins.tree, t)
                       /\ \A c \in ch :
                            [path |-> t \o << c >>,
                             kind |-> IF c = "Foo" THEN "dir" ELSE "file",
                             origin |-> c] \in ins.tree

C22_Witness ==
    /\ ins_pc = "returned"
    /\ ins.children = {"a.xex"}
    /\ ins.returned = << "converted" >>
    /\ ins.dest0.state = "absent"
    /\ [path |-> << "converted", "a.xex" >>, kind |-> "file", origin |-> "a.xex"] \in ins.tree

C25_OnlyStorageErrors ==
    ins_pc = "raised" => ins.raised.type = "StorageError"

C26_CleanupNeverFailsRun ==
    /\ []("Install" \in Range(completed)
            => /\ pc \in {"Cleanup", "Done", "finished"}
               /\ exc = None)
    /\ ("Install" \in Range(completed)) ~> (pc = "finished")
    /\ [](pc = "finished" => terminal = << Finished(installPath) >>)
    /\ [][pc = "Cleanup" => pc' = "Done" /\ cleanupCalls' = cleanupCalls + 1]_vars

C26_Witness ==
    /\ pc = "finished"
    /\ terminal = << Finished(installPath) >>
    /\ cleanupCalls = 1
    /\ tempExists

\* C27: within one request the worker of item i+1 exists only when the worker
\* of item i has emitted finished or error, and at most one worker of the
\* request has been started without having emitted its terminal event.
C27_SequentialWithinRequest ==
    \A r \in DOMAIN mw.requests :
        LET ws == WorkersOf(mw, r)
        IN  /\ \A k \in DOMAIN ws :
                  k > 1 => ws[k - 1].signal \in {"finished", "error"}
            /\ Cardinality({ k \in DOMAIN ws :
                                ws[k].st \in {"started", "running"} }) <= 1

C27_Witness ==
    \E r \in DOMAIN mw.requests :
        LET ws == WorkersOf(mw, r)
        IN  /\ Len(ws) = 2
            /\ ws[1].signal = "error"
            /\ ws[2].st = "running"

C29_OneTempDirPerRun ==
    /\ \A w \in DOMAIN mw.workers :
          LET x == mw.workers[w]
          IN  /\ x.st = "started" => x.temp = NoTemp /\ x.created = {}
              /\ x.st # "started"
                    => /\ \E u \in 1..mw.uuids :
                            x.temp = TempRoot \o << << "romtool_", u >> >>
                       /\ x.created = IF x.raised THEN {} ELSE {x.temp}
    /\ \A v, w \in DOMAIN mw.workers :
          v # w /\ mw.workers[v].temp # NoTemp
            => mw.workers[v].temp # mw.workers[w].temp

C29_Witness ==
    \E v, w \in DOMAIN mw.workers :
        /\ mw.workers[v].request # mw.workers[w].request
        /\ mw.workers[v].st = "running" /\ ~mw.workers[v].raised
        /\ mw.workers[w].st = "running" /\ ~mw.workers[w].raised
        /\ \E x \in DOMAIN mw.workers :
              /\ mw.workers[x].st = "handled"
              /\ mw.workers[x].temp \in mw.tempDirs

\* C30: once the download has returned, the Extract stage is entered exactly
\* when the name of the downloaded file has an archive extension; an
\* extraction that returned without leaving a file named *.iso anywhere under
\* its output ends the run with the Extraction-classified error, with
\* neither Convert nor Install started; and convert_iso is given the image
\* found under the output, or the downloaded file when Extract was skipped.
C30_ExtractOnlyArchives ==
    /\ []("Download" \notin Range(completed)
            => pc # "Extract" /\ "Extract" \notin Range(stages))
    /\ []("Download" \in Range(completed)
            => ((pc = "Extract" \/ "Extract" \in Range(stages))
                  <=> \E k \in 1..Len(Suffixes(PathName(result.path))) :
                         Suffixes(PathName(result.path))[k] \in ARCHIVE_EXTENSIONS))
    /\ [][pc = "Extract"
            => LET images == { e \in extractOut' :
                                 /\ e.kind = "file"
                                 /\ e.path[Len(e.path)] \in IsoNames }
               IN  /\ pc' = "Convert" => images # {}
                   /\ images = {}
                        => /\ pc' = "raising"
                           /\ exc'.type = "ExtractionError"]_vars
    /\ [](exc = ExtractionError("no iso")
            => /\ failedStage = "Extract"
               /\ {"Convert", "Install"} \cap Range(stages) = {}
               /\ conv.calls = 0
               /\ dest = dest0.tree
               /\ pc = "failed"
                    => terminal = << Error([prefix |-> "Extraction failed:",
                                            cause |-> exc]) >>)
    /\ []("Convert" \in Range(stages)
            => IF "Extract" \in Range(completed)
               THEN /\ \E e \in extractOut :
                          /\ e.kind = "file"
                          /\ e.path[Len(e.path)] \in IsoNames
                          /\ conv.iso = ExtractDir \o e.path
                    /\ conv.iso = FindIso(extractOut)
               ELSE /\ conv.iso = result.path
                    /\ "Extract" \notin Range(stages))

C30_Witness ==
    /\ "Extract" \in Range(completed)
    /\ "Convert" \in Range(completed)
    /\ conv.iso = << "extracted", "disc", "game.iso" >>
    /\ conv.iso # result.path

\* C31: a failed run has emitted one error message whose prefix is the
\* category of the exception: Download, Extraction, Conversion and Storage
\* errors have their own prefix and come from their own stage, an
\* insufficient-disk-space error is reported with the required and the
\* available amount and not with the storage prefix, and every exception
\* outside the hierarchy gets the prefix of the catch-all.
C31_ErrorCategories ==
    pc = "failed"
      => /\ Len(terminal) = 1
         /\ terminal[1].kind = "error"
         /\ terminal[1].arg.cause = exc
         /\ exc.type = "DownloadError"
              => /\ terminal[1].arg.prefix = "Download failed:"
                 /\ failedStage = "Download"
         /\ exc.type = "ExtractionError"
              => /\ terminal[1].arg.prefix = "Extraction failed:"
                 /\ failedStage = "Extract"
         /\ exc.type = "ConversionError"
              => /\ terminal[1].arg.prefix = "Conversion failed:"
                 /\ failedStage = "Convert"
         /\ exc.type = "StorageError"
              => /\ terminal[1].arg.prefix = "Storage error:"
                 /\ failedStage \in {"SpaceCheck", "Install"}
         /\ exc.type = "InsufficientDiskSpaceError"
              => /\ terminal[1].arg.prefix = "Not enough disk space."
                 /\ failedStage = "SpaceCheck"
                 /\ terminal[1].arg.required
                      = GiBTenths(FALLBACK_SIZE_ESTIMATE + DISK_SAFETY_BUFFER_BYTES)
                 /\ terminal[1].arg.available = GiBTenths(spaceFree)
         /\ exc.type \notin {"DownloadError", "ExtractionError", "ConversionError",
                             "StorageError", "InsufficientDiskSpaceError"}
              => terminal[1].arg.prefix = "Unexpected error:"

C31_Witness ==
    /\ pc = "failed"
    /\ exc.type = "InsufficientDiskSpaceError"
    /\ terminal[1].arg.prefix = "Not enough disk space."
    /\ terminal[1].arg.required = 95

\* C32: when download_file has raised, after its last attempt or after a
\* cancellation, the file its last failed attempt had opened is not in the
\* destination directory.
C32_NoPartialAfterFailure ==
    (dl_pc = "raised" /\ failedPath # NoPath) => failedPath \notin DOMAIN files

\* C33: every progress callback of download_file carries total = -1 when the
\* response has no Content-Length header and the value of the header
\* otherwise; the progress event of the pipeline carries total = 0 exactly
\* when the header is missing, and the window shows the indeterminate bar
\* exactly then.
C33_UnknownTotalDistinguished ==
    [][downloaded' > downloaded
         => /\ lastProgress' = << downloaded', IF lengthHeader.present
                                                THEN lengthHeader.value ELSE -1 >>
            /\ lastProgress'[2] = -1 <=> ~lengthHeader.present
            /\ progressEvent'[1] = downloaded'
            /\ progressEvent'[2] = 0 <=> ~lengthHeader.present
            /\ lengthHeader.present => progressEvent'[2] = lengthHeader.value
            /\ OnProgress(progressEvent'[1], progressEvent'[2]).range = << 0, 0 >>
                 <=> ~lengthHeader.present]_vars

C33_Witness ==
    /\ mode = "pipeline"
    /\ dl_pc = "streaming"
    /\ ~lengthHeader.present
    /\ downloaded > 0
    /\ lastProgress = << downloaded, -1 >>
    /\ progressEvent = << downloaded, 0 >>

\* C34: the progress callback of convert_iso is called with (0, 100) before
\* the tool is launched and with (100, 100) after the tool ran in time and
\* exited with 0, in that order and with no other values; a conversion that
\* raised has not reported (100, 100), and without a callback nothing is
\* reported.
C34_CoarseProgress ==
    /\ [](/\ conv.progress \in {<< >>, << << 0, 100 >> >>,
                                << << 0, 100 >>, << 100, 100 >> >>}
          /\ ~conv.cb => conv.progress = << >>
          /\ (conv.cb /\ conv.status \in {"running", "returned"})
                => conv.progress[1] = << 0, 100 >>
          /\ conv.launches > 0 /\ conv.cb => conv.progress[1] = << 0, 100 >>
          /\ Len(conv.progress) = 2
                <=> /\ conv.cb
                    /\ conv.status = "returned"
                    /\ conv.proc.kind = "ran"
                    /\ conv.proc.code = 0
                    /\ conv.proc.elapsed <= CONVERT_TIMEOUT
          /\ conv.status = "raised" => Len(conv.progress) <= 1)
    /\ [][conv'.launches > conv.launches /\ conv.cb
            => conv.progress = << << 0, 100 >> >>]_vars

C34_Witness ==
    /\ cv_pc = "raised"
    /\ conv.cb
    /\ conv.launches = 1
    /\ conv.proc.kind = "ran"
    /\ conv.proc.code # 0
    /\ conv.progress = << << 0, 100 >> >>

\* C35: for the same outcomes of the attempts, download_file and
\* download_file_async have made the same number of attempts and the same
\* number of partial-file cleanups when both have ended, and have ended the
\* same way: a path returned, or DownloadError after the third failure.
C35_AsyncSameRetries ==
    (ad.sync.st # "running" /\ ad.async.st # "running")
        => /\ ad.async.attempts = ad.sync.attempts
           /\ ad.async.cleanups = ad.sync.cleanups
           /\ ad.async.st = ad.sync.st
           /\ ad.async.result = ad.sync.result

\* C36 as stated: during one download_file call the bytesDownloaded value
\* passed to the progress callback never decreases from one callback to the
\* next, also from the last callback of a failed attempt to the first one of
\* the retry, and never exceeds the bytes present in the output file.
C36_ProgressNeverDecreases ==
    [][downloaded' > downloaded
         => /\ lastProgress # << >> => lastProgress'[1] >= lastProgress[1]
            /\ lastProgress'[1] <= files'[destPath']]_vars

\* C36: within one attempt the bytesDownloaded value passed to the progress
\* callback never decreases from one callback to the next and never exceeds
\* the bytes present in the output file; every attempt counts from zero
\* again, so the first callback of a retry reports the length of its first
\* chunk, whatever the failed attempt had reported.
C36_ProgressMonotoneWithinAttempt ==
    [][downloaded' > downloaded
         => /\ lastProgress'[1] = downloaded'
            /\ lastProgress'[1] <= files'[destPath']
            /\ downloaded > 0 => /\ lastProgress # << >>
                                 /\ lastProgress'[1] >= lastProgress[1]
            /\ downloaded = 0 => lastProgress'[1] = received']_vars

C36_Witness ==
    /\ dl_pc = "streaming"
    /\ attempt = 2
    /\ errLog # << >>
    /\ chunksSeen = 2
    /\ downloaded = 100
    /\ lastProgress[1] = 100
    /\ files[destPath] = 100

\* C38 as stated: when install raises (empty source, or a file-system error
\* while an old target is removed or an entry is moved), the destination is
\* as it was before the call: nothing was created in it, no source entry was
\* moved into it and no old entry was removed from it.
C38_InstallAllOrNothing ==
    ins_pc = "raised"
        => /\ ins.destState = ins.dest0.state
           /\ ins.tree = ins.dest0.tree
           /\ ins.children # {} => ins.src = ins.children

\* C37 as stated: when a run of a batch into one install directory returns
\* from install after every earlier run of the batch succeeded, the path each
\* earlier run reported still holds everything that run installed, and
\* nothing of another run is at or below it.
C37_BatchKeepsEarlierInstalls ==
    ins_pc = "returned"
        => \A k \in 1..Len(ins.earlier) :
              LET r == ins.earlier[k]
              IN  /\ r.artifacts \subseteq ins.tree
                  /\ \A e \in ins.tree :
                        Under(e.path, r.path)
                            => e.origin \in {RunLabel(k), "old", "install"}

\* C39 as stated: from the start of a request until the worker of its last
\* item has emitted its terminal event the window is busy (the download
\* button, the load button and the list are disabled), so that no second
\* request starts meanwhile and at most one InstallWorker is started or
\* running in the whole application.
C39_BusyUntilLastItem ==
    /\ \A r \in DOMAIN mw.requests :
          (\A w \in DOMAIN mw.workers :
              (mw.workers[w].request = r
                  /\ mw.workers[w].index = mw.requests[r].n - 1)
                  => mw.workers[w].st \in {"started", "running"})
              => mw.busy
    /\ Cardinality({ w \in DOMAIN mw.workers :
                       mw.workers[w].st \in {"started", "running"} }) <= 1

====
